---------------------------- MODULE Spec2Model ----------------------------
(***************************************************************************)
(* A model of the core of the WCAG colour swatch generator:                *)
(*   - ThreadManager   (src/src/core/core-api_md.bak, class ThreadManager) *)
(*   - SwatchGenerator (src/src/color/swatch-generator.js)                 *)
(*   - CacheManager    (src/unnamed/part_007)                              *)
(* Each component has its own next-state relation and specification; the   *)
(* variables of the other components are left unchanged by it.             *)
(***************************************************************************)
EXTENDS Integers, Sequences, FiniteSets, TLC

(***************************************************************************)
(* Bounds of the model.                                                    *)
(***************************************************************************)
\* number of calls of the ThreadManager API explored (initialize, executeTask
\* and terminate together; initialize calls may overlap at their awaits)
MaxCalls == 4

\* number of colours of the HTML colour table the search enumerates
PaletteSize == 4
\* number of SwatchGenerator calls explored
MaxSearches == 2

\* number of CacheManager calls explored
MaxCacheOps == 4
\* the days the clock may advance
MaxClockDays == 2
\* number of storeAsset calls that run step by step
MaxStoreCalls == 4
\* number of calls made on the ColorParser
MaxParses == 2
\* the largest navigator.hardwareConcurrency of a device
MaxCores == 16
\* number of calls of initialize, shutdown and restart on the SystemManager
MaxSystemCalls == 3
\* the longest colors array given to validateSwatch
MaxSwatchLen == 3
\* config.maxAge of the cache under test, in days
MaxAgeDays == 1
\* config.maxSize of the cache under test, in KB
MaxSizeKB == 10

(***************************************************************************)
(* Program constants of ThreadManager.                                     *)
(***************************************************************************)
\* Math.max(1, ...) in initialize
MinThreads == 1
\* Math.min(maxThreads, 8) in initialize
ThreadCap == 8
\* this.maxThreads = 4 in the constructor
DefaultMaxThreads == 4

(***************************************************************************)
(* Program constants of SwatchGenerator.                                   *)
(***************************************************************************)
\* colorCount < 2 throws
MinColorCount == 2
\* colorCount > 5 throws
MaxColorCount == 5
\* const batchSize = 100
BatchSize == 100

(***************************************************************************)
(* Program constants of CacheManager.                                      *)
(***************************************************************************)
\* `size > 1024`: the size above which storeAsset compresses
CompressThreshold == 1024
\* 86400000 ms, the day of calculateCleanupScore
OneDay == 86400000
\* itemCount > 1000 starts the eviction
CountLimit == 1000
\* const targetCount = 800
TargetCount == 800
\* generateFingerprint: substring(0, 16)
FingerprintLength == 16
\* validateSwatch: minColors = 2, maxColors = 5
VEMinColors == 2
VEMaxColors == 5

VARIABLES
    \* ---------------- worker script, WCAGCalculator ----------------
    wcagCall,         \* history: the last contrast call, its arguments and what it returned
    \* ---------------- ColorParser ----------------
    parseLog,         \* history: the calls made on the parser with what they returned
    \* ---------------- DeviceDetector ----------------
    devices,          \* environment: the devices, each with a detector of its own
    detectors,        \* the DeviceDetector of each device: platform, capabilities, initialized
    fingerprints,     \* history: what generateFingerprint returned on each device
    threadCounts,     \* history: what getOptimalThreadCount returned on each device
    \* ---------------- SystemManager ----------------
    status,           \* this.status
    smInitialized,    \* this.initialized
    initializationPromise, \* this.initializationPromise: the run it belongs to, or 0
    runs,             \* the runs of _performInitialization and where each stands
    deviceDetector,   \* this.deviceDetector: the run that created it, its initialized
    cacheManager,     \* this.cacheManager: the run that created it, its initialized
    events,           \* history: the events dispatched on this.eventBus
    restarts,         \* the restart() calls suspended at `await this.shutdown()`
    components,       \* this.components: the names it maps
    returned,         \* history: what initialize() returned to each of its callers
    smCalls,          \* history: number of calls made on the SystemManager
    \* ---------------- ValidationEngine ----------------
    validationRules,  \* this.validationRules: rule id -> the rule registered under it
    veCall,           \* the arguments of the validateSwatch call under test
    veReport,         \* history: what that call returned on the rules now registered
    \* ---------------- CacheManager ----------------
    cmInitialized,    \* this.initialized
    fingerprint,      \* this.fingerprint
    assets,           \* the 'assets' object store: id -> cache entry
    cacheStats,       \* this.cacheStats
    metadataStats,    \* the 'cache_stats' record of the 'metadata' store
    now,              \* Date.now(), in ms
    cmResult,         \* history: the last CacheManager call and what it returned
    lastStored,       \* history: id -> the data of the last successful storeAsset
    storedBytes,      \* history: the sizes of all entries stored so far, summed
    cacheOps,         \* history: number of CacheManager calls so far
    storeCalls,       \* key -> the locals of the storeAsset call that runs step by step
    storeTotals,      \* history: the step-by-step calls made, what they stored and deleted
    \* ---------------- SwatchGenerator ----------------
    uniqueSwatches,   \* this.uniqueSwatches: set of normalized keys
    generatedSwatches,\* this.generatedSwatches: the stored swatches, oldest first
    searchLog,        \* history: the calls made on the generator with their results
    \* ---------------- ThreadManager ----------------
    initialized,      \* this.initialized
    maxThreads,       \* this.maxThreads
    workerPool,       \* this.workerPool: sequence of pool entries with their worker
    taskQueue,        \* this.taskQueue: sequence of task ids
    activeThreads,    \* this.activeThreads
    workerSupported,  \* environment: whether a Worker can be constructed
    microtasks,       \* the job queue: the initialize() calls suspended at their
                      \* await, in the order in which they resume, each with its i
    task,             \* the tasks created by executeTask and their promises
    submitted,        \* number of executeTask calls so far (task ids are 1..submitted)
    postLog,          \* history: task ids in the order worker.postMessage sent them
    lost,             \* history: tasks whose worker was terminated before it answered
    sizeAtInit,       \* history: pool size when initialize() first set initialized
    calls             \* history: number of API calls made so far

tmVars == <<initialized, maxThreads, workerPool, taskQueue, activeThreads,
            workerSupported, microtasks, task, submitted, postLog, lost, sizeAtInit, calls>>

sgVars == <<uniqueSwatches, generatedSwatches, searchLog>>

cmVars == <<cmInitialized, fingerprint, assets, cacheStats, metadataStats, now,
            cmResult, lastStored, storedBytes, cacheOps>>

stVars == <<storeCalls, storeTotals>>

veVars == <<validationRules, veCall, veReport>>

cpVars == <<parseLog>>

ddVars == <<devices, detectors, fingerprints, threadCounts>>

smVars == <<status, smInitialized, initializationPromise, runs, deviceDetector,
           cacheManager, events, restarts, components, returned, smCalls>>

wcVars == <<wcagCall>>

vars == <<tmVars, sgVars, cmVars, stVars, veVars, cpVars, ddVars, smVars, wcVars>>

\* what the actions of one component leave unchanged
otherThanTM == <<sgVars, cmVars, stVars, veVars, cpVars, ddVars, smVars, wcVars>>
otherThanSG == <<tmVars, cmVars, stVars, veVars, cpVars, ddVars, smVars, wcVars>>
otherThanCM == <<tmVars, sgVars, stVars, veVars, cpVars, ddVars, smVars, wcVars>>
otherThanCache == <<tmVars, sgVars, veVars, cpVars, ddVars, smVars, wcVars>>
otherThanVE == <<tmVars, sgVars, cmVars, stVars, cpVars, ddVars, smVars, wcVars>>
otherThanCP == <<tmVars, sgVars, cmVars, stVars, veVars, ddVars, smVars, wcVars>>
otherThanDD == <<tmVars, sgVars, cmVars, stVars, veVars, cpVars, smVars, wcVars>>
otherThanSM == <<tmVars, sgVars, cmVars, stVars, veVars, cpVars, ddVars, wcVars>>
otherThanWC == <<tmVars, sgVars, cmVars, stVars, veVars, cpVars, ddVars, smVars>>

(***************************************************************************)
(* ThreadManager                                                           *)
(***************************************************************************)

\* the maxThreads arguments explored: below the minimum, inside the range,
\* above the cap
RequestedThreads == {0, 2, 9}

\* what executeTask is called with: a known type with well-formed data, a known
\* type whose body throws (hexToRgb yields null for a 3-digit colour), and a
\* type the worker's switch does not know
TaskInputs ==
    { [type |-> "calculateContrast", wellFormed |-> TRUE],
      [type |-> "calculateContrast", wellFormed |-> FALSE],
      [type |-> "unknownType",       wellFormed |-> TRUE] }

Max(a, b) == IF a >= b THEN a ELSE b
Min(a, b) == IF a <= b THEN a ELSE b

\* Math.max(1, Math.min(maxThreads, 8))
ClampThreads(requested) == Max(MinThreads, Min(requested, ThreadCap))

\* a pool entry {worker, busy, id} together with the state of its worker:
\*   listener : the task whose handleMessage closure is registered (0: none)
\*   stage    : "idle"     - the worker has no message to process
\*              "posted"   - postMessage sent a task, the worker has not run it
\*              "answered" - the worker posted its answer, the main thread has
\*                           not dispatched the message event yet
\*   success  : the success field of the answer
IdleEntry == [busy |-> FALSE, listener |-> 0, stage |-> "idle", success |-> FALSE]

\* mutant: the first entry is taken whether or not it is busy
FindAvailable_Any(pool) == IF Len(pool) > 0 THEN 1 ELSE 0

\* this.workerPool.find(w => !w.busy): index of the first idle entry, 0 if none
FindAvailable(pool) ==
    IF \E i \in 1..Len(pool) : ~pool[i].busy
    THEN CHOOSE i \in 1..Len(pool) :
            /\ ~pool[i].busy
            /\ \A j \in 1..(i-1) : pool[j].busy
    ELSE 0

\* mutant: the newest queued task is taken (pop() for shift())
ShiftIndex_Pop(queue) == Len(queue)

\* which queued task processQueue takes: this.taskQueue.shift()
ShiftIndex(queue) == 1

\* processQueue(): the state of queue, pool, counter and post history after it
ProcessQueue(queue, pool, active, log) ==
    LET w == FindAvailable(pool) IN
    IF Len(queue) = 0 \/ w = 0
    THEN [queue |-> queue, pool |-> pool, active |-> active, log |-> log]
    ELSE LET k == ShiftIndex(queue)
             t == queue[k]
         IN [queue  |-> SubSeq(queue, 1, k-1) \o SubSeq(queue, k+1, Len(queue)),
             pool   |-> [pool EXCEPT ![w] = [busy |-> TRUE, listener |-> t,
                                             stage |-> "posted", success |-> FALSE]],
             active |-> active + 1,
             log    |-> Append(log, t)]

\* the answer the worker's onmessage computes for a task
WorkerSucceeds(t) == task[t].input.type = "calculateContrast" /\ task[t].input.wellFormed

NewTask(input) == [input |-> input, promise |-> "pending", error |-> "none", settles |-> 0]

\* task.resolve / task.reject: a promise keeps its first settlement, the
\* number of calls is counted
Settle(tk, outcome, err) ==
    [tk EXCEPT !.promise = IF tk.promise = "pending" THEN outcome ELSE @,
               !.error   = IF tk.promise = "pending" THEN err ELSE @,
               !.settles = @ + 1]

TMInit ==
    /\ initialized = FALSE
    /\ maxThreads = DefaultMaxThreads
    /\ workerPool = <<>>
    /\ taskQueue = <<>>
    /\ activeThreads = 0
    /\ microtasks = <<>>
    /\ task = <<>>
    /\ submitted = 0
    /\ postLog = <<>>
    /\ lost = {}
    /\ sizeAtInit = 0
    /\ calls = 0

\* initialize(maxThreads), up to its first await: the early return when already
\* initialized, else the clamp and the first createWorker() call
InitializeBegin(requested) ==
    /\ calls < MaxCalls
    /\ calls' = calls + 1
    /\ IF initialized
       THEN UNCHANGED <<maxThreads, microtasks>>
       ELSE /\ maxThreads' = ClampThreads(requested)
            /\ microtasks' = Append(microtasks, [i |-> 0])
    /\ UNCHANGED <<initialized, workerPool, taskQueue, activeThreads, workerSupported,
                   task, submitted, postLog, lost, sizeAtInit>>
    /\ UNCHANGED otherThanTM

\* the pool after `if (worker) this.workerPool.push({worker, busy: false, id: i})`
PushWorker(pool, worker) == IF worker THEN Append(pool, IdleEntry) ELSE pool

\* initialize() resumed after `await this.createWorker()`: push the worker if
\* there is one, i++, then either the next createWorker() call and await, or
\* `this.initialized = true; return true`. The job queue resumes the waiting
\* calls in the order in which they awaited.
InitializeResume ==
    /\ microtasks # <<>>
    /\ workerPool' = PushWorker(workerPool, workerSupported)
    /\ IF Head(microtasks).i + 1 < maxThreads
       THEN /\ microtasks' = Append(Tail(microtasks), [i |-> Head(microtasks).i + 1])
            /\ UNCHANGED <<initialized, sizeAtInit>>
       ELSE /\ microtasks' = Tail(microtasks)
            /\ initialized' = TRUE
            /\ sizeAtInit' = IF initialized THEN sizeAtInit ELSE Len(workerPool')
    /\ UNCHANGED <<maxThreads, taskQueue, activeThreads, workerSupported,
                   task, submitted, postLog, lost, calls>>
    /\ UNCHANGED otherThanTM

\* executeTask(type, data): throws when not initialized (the async function's
\* promise is rejected), else queues the task and runs processQueue()
ExecuteTask(input) ==
    /\ calls < MaxCalls
    /\ calls' = calls + 1
    /\ submitted' = submitted + 1
    /\ IF ~initialized
       THEN /\ task' = Append(task, Settle(NewTask(input), "rejected", "notInitialized"))
            /\ UNCHANGED <<taskQueue, workerPool, activeThreads, postLog>>
       ELSE LET r == ProcessQueue(Append(taskQueue, submitted + 1), workerPool,
                                  activeThreads, postLog)
            IN /\ task' = Append(task, NewTask(input))
               /\ taskQueue' = r.queue
               /\ workerPool' = r.pool
               /\ activeThreads' = r.active
               /\ postLog' = r.log
    /\ UNCHANGED <<initialized, maxThreads, workerSupported, microtasks, lost, sizeAtInit>>
    /\ UNCHANGED otherThanTM

\* the worker's self.onmessage: runs the task and posts {taskId, success, ...}
WorkerRun(w) ==
    /\ w \in 1..Len(workerPool)
    /\ workerPool[w].stage = "posted"
    /\ workerPool' = [workerPool EXCEPT ![w].stage = "answered",
                                        ![w].success = WorkerSucceeds(workerPool[w].listener)]
    /\ UNCHANGED <<initialized, maxThreads, taskQueue, activeThreads, workerSupported,
                   microtasks, task, submitted, postLog, lost, sizeAtInit, calls>>
    /\ UNCHANGED otherThanTM

\* mutant: the listener is removed and the busy flag is left set
FreeWorker_StaysBusy(pool, w) == [pool EXCEPT ![w] = [IdleEntry EXCEPT !.busy = TRUE]]

\* handleMessage: removeEventListener, availableWorker.busy = false
FreeWorker(pool, w) == [pool EXCEPT ![w] = IdleEntry]

\* the continuations of initialize() are microtasks: the event loop runs them
\* all before it dispatches the next message event
MicrotasksPending == microtasks # <<>>

\* handleMessage(e) of the task posted to worker w: frees the worker, settles
\* the task's promise and runs processQueue()
HandleMessage(w) ==
    /\ w \in 1..Len(workerPool)
    /\ workerPool[w].stage = "answered"
    /\ ~MicrotasksPending
    /\ LET t == workerPool[w].listener
           freed == FreeWorker(workerPool, w)
           r == ProcessQueue(taskQueue, freed, activeThreads - 1, postLog)
       IN /\ task' = [task EXCEPT ![t] =
                        IF workerPool[w].success
                        THEN Settle(@, "resolved", "none")
                        ELSE Settle(@, "rejected", "task")]
          /\ taskQueue' = r.queue
          /\ workerPool' = r.pool
          /\ activeThreads' = r.active
          /\ postLog' = r.log
    /\ UNCHANGED <<initialized, maxThreads, workerSupported, microtasks,
                   submitted, lost, sizeAtInit, calls>>
    /\ UNCHANGED otherThanTM

\* mutant: the queue is dropped without rejecting its tasks
RejectQueued_Silent(tasks, queue) == tasks

\* the tasks of the queue after terminate()'s forEach(task => task.reject(...))
RejectQueued(tasks, queue) ==
    [t \in 1..Len(tasks) |->
        IF \E k \in 1..Len(queue) : queue[k] = t
        THEN Settle(tasks[t], "rejected", "terminated")
        ELSE tasks[t]]

\* terminate(): rejects the queued tasks, empties the queue, terminates every
\* worker (a terminated worker runs nothing more and its pending messages are
\* discarded), empties the pool and resets the counters
Terminate ==
    /\ calls < MaxCalls
    /\ calls' = calls + 1
    /\ task' = RejectQueued(task, taskQueue)
    /\ taskQueue' = <<>>
    /\ lost' = lost \cup { workerPool[w].listener : w \in { v \in 1..Len(workerPool) : workerPool[v].listener # 0 } }
    /\ workerPool' = <<>>
    /\ activeThreads' = 0
    /\ initialized' = FALSE
    /\ sizeAtInit' = 0
    /\ UNCHANGED <<maxThreads, workerSupported, microtasks, submitted, postLog>>
    /\ UNCHANGED otherThanTM

TMNoTerminate ==
    \/ \E n \in RequestedThreads : InitializeBegin(n)
    \/ InitializeResume
    \/ \E input \in TaskInputs : ExecuteTask(input)
    \/ \E w \in 1..Len(workerPool) : WorkerRun(w)
    \/ \E w \in 1..Len(workerPool) : HandleMessage(w)

TMNext ==
    \/ TMNoTerminate
    \/ Terminate

(***************************************************************************)
(* SwatchGenerator, with the parts of ColorParser and WCAGCalculator it    *)
(* uses.  A colour is the number its normalized hex string '#RRGGBB'       *)
(* denotes; the order of the numbers is the order of those strings.        *)
(***************************************************************************)

\* A colour string is a hex string in one of the spellings isValidHex accepts,
\* a colour name (lower case, without spaces), or a string that is neither.
\* Two colour strings are the same string when their records are equal; hex
\* is the number a hex string denotes and is 0 for the other strings.
HexForms == {"#RRGGBB", "#rrggbb", "#RGB"}

HexString(form, n) == [kind |-> "hex", form |-> form, hex |-> n]

NameString(name) == [kind |-> "name", form |-> name, hex |-> 0]

NoColorString == [kind |-> "bad", form |-> "?", hex |-> 0]

\* the object literal `colors` of initializeHTMLColors, in source order,
\* restricted to the entries whose channels are all 00 or FF: aqua #00FFFF,
\* black #000000, blue #0000FF, cyan #00FFFF, fuchsia #FF00FF, lime #00FF00,
\* magenta #FF00FF, red #FF0000, white #FFFFFF, yellow #FFFF00
ColorTable ==
    << [name |-> "aqua", hex |-> 65535], [name |-> "black", hex |-> 0],
       [name |-> "blue", hex |-> 255], [name |-> "cyan", hex |-> 65535],
       [name |-> "fuchsia", hex |-> 16711935], [name |-> "lime", hex |-> 65280],
       [name |-> "magenta", hex |-> 16711935], [name |-> "red", hex |-> 16711680],
       [name |-> "white", hex |-> 16777215], [name |-> "yellow", hex |-> 16776960] >>

\* ColorParser.initializeHTMLColors: this.htmlColors, in insertion order,
\* after the forEach has visited the first k entries; an entry whose hex is
\* already in uniqueHexValues is not set
RECURSIVE InitializeHTMLColors(_)
InitializeHTMLColors(k) ==
    IF k = 0 THEN <<>>
    ELSE LET map == InitializeHTMLColors(k - 1)
             entry == ColorTable[k]
         IN IF \E i \in 1..Len(map) : map[i].hex = entry.hex
            THEN map
            ELSE Append(map, entry)

\* this.htmlColors after the constructor
HtmlColors == InitializeHTMLColors(Len(ColorTable))

\* ColorParser.htmlToHex: this.htmlColors.get(name) || null
HtmlToHex(color) ==
    LET hits == { i \in 1..Len(HtmlColors) : HtmlColors[i].name = color.form }
    IN IF hits = {} THEN [found |-> FALSE, hex |-> 0]
       ELSE [found |-> TRUE, hex |-> HtmlColors[CHOOSE i \in hits : TRUE].hex]

\* ColorParser.getAllHexValues(): Array.from(this.htmlColors.values())
PrimaryHexValues == [i \in 1..Len(HtmlColors) |-> HtmlColors[i].hex]

\* ColorParser.isValidHex
IsValidHex(color) == color.kind = "hex"

\* ColorParser.normalizeHex: throws on anything but a hex string; upper case,
\* '#' and six digits otherwise, which is the number the string denotes
NormalizeHex(color) ==
    IF IsValidHex(color) THEN [threw |-> FALSE, hex |-> color.hex]
    ELSE [threw |-> TRUE, hex |-> 0]

\* ColorParser.parseColor: a hex string is normalized, a name is looked up in
\* this.htmlColors, and anything else throws
ParseColor(color) ==
    LET Named(htmlHex) == IF htmlHex.found THEN [threw |-> FALSE, hex |-> htmlHex.hex]
                          ELSE [threw |-> TRUE, hex |-> 0]
    IN IF IsValidHex(color) THEN NormalizeHex(color) ELSE Named(HtmlToHex(color))

\* the part of the table the search enumerates
AllHexValues == SubSeq(PrimaryHexValues, 1, Min(PaletteSize, Len(PrimaryHexValues)))

\* ColorParser.hexToRgb
HexToRgb(hex) == [r |-> hex \div 65536, g |-> (hex \div 256) % 256, b |-> hex % 256]

\* the gamma correction of rgbToLuminance, times 100000 and rounded, for the
\* channels 0..255: c/255/12.92 up to 0.03928, Math.pow((c/255+0.055)/1.055, 2.4)
\* above it
GammaTable ==
    <<   0, 30, 61, 91, 121, 152, 182, 212, 243, 273, 304, 335,
       368, 402, 439, 478, 518, 561, 605, 651, 700, 750, 802, 857,
       913, 972, 1033, 1096, 1161, 1229, 1298, 1370, 1444, 1521, 1600, 1681,
       1764, 1850, 1938, 2029, 2122, 2217, 2315, 2416, 2519, 2624, 2732, 2843,
       2956, 3071, 3190, 3310, 3434, 3560, 3689, 3820, 3955, 4092, 4231, 4374,
       4519, 4667, 4817, 4971, 5127, 5286, 5448, 5613, 5781, 5951, 6125, 6301,
       6480, 6663, 6848, 7036, 7227, 7421, 7619, 7819, 8022, 8228, 8438, 8650,
       8866, 9084, 9306, 9531, 9759, 9990, 10224, 10462, 10702, 10946, 11193, 11444,
       11697, 11954, 12214, 12477, 12744, 13014, 13287, 13563, 13843, 14126, 14413, 14703,
       14996, 15293, 15593, 15896, 16203, 16513, 16827, 17144, 17465, 17789, 18116, 18447,
       18782, 19120, 19462, 19807, 20156, 20508, 20864, 21223, 21586, 21953, 22323, 22697,
       23074, 23455, 23840, 24228, 24620, 25016, 25415, 25818, 26225, 26636, 27050, 27468,
       27889, 28315, 28744, 29177, 29614, 30054, 30499, 30947, 31399, 31855, 32314, 32778,
       33245, 33716, 34191, 34670, 35153, 35640, 36131, 36625, 37124, 37626, 38133, 38643,
       39157, 39676, 40198, 40724, 41254, 41789, 42327, 42869, 43415, 43966, 44520, 45079,
       45641, 46208, 46778, 47353, 47932, 48515, 49102, 49693, 50289, 50888, 51492, 52100,
       52712, 53328, 53948, 54572, 55201, 55834, 56471, 57112, 57758, 58408, 59062, 59720,
       60383, 61050, 61721, 62396, 63076, 63760, 64448, 65141, 65837, 66539, 67244, 67954,
       68669, 69387, 70110, 70838, 71569, 72306, 73046, 73791, 74540, 75294, 76052, 76815,
       77582, 78354, 79130, 79910, 80695, 81485, 82279, 83077, 83880, 84687, 85499, 86316,
       87137, 87962, 88792, 89627, 90466, 91310, 92158, 93011, 93869, 94731, 95597, 96469,
       97345, 98225, 99110, 100000
    >>

\* gamma(component) for component = channel / 255, times 100000
GammaLinear(channel) == GammaTable[channel + 1]

\* ColorParser.rgbToLuminance, times 1000000, to the nearest unit
RgbToLuminance(rgb) ==
    (2126 * GammaLinear(rgb.r) + 7152 * GammaLinear(rgb.g)
        + 722 * GammaLinear(rgb.b) + 500) \div 1000

\* ColorParser.hexToLuminance, times 1000000
HexToLuminance(hex) == RgbToLuminance(HexToRgb(hex))

\* WCAGCalculator.calculateContrast, times 100:
\* Math.round((lighter + 0.05) / (darker + 0.05) * 100)
CalculateContrast(color1, color2) ==
    LET l1 == HexToLuminance(color1)
        l2 == HexToLuminance(color2)
        lighter == Max(l1, l2)
        darker == Min(l1, l2)
        num == (lighter + 50000) * 100
        den == darker + 50000
    IN (2 * num + den) \div (2 * den)

\* WCAGCalculator.thresholds, times 100
Thresholds == [AA  |-> [normal |-> 450, large |-> 300],
               AAA |-> [normal |-> 700, large |-> 450]]

WcagLevels == {"AA", "AAA"}

\* WCAGCalculator.checkCompliance
CheckCompliance(color1, color2, level, textSize) ==
    LET contrastRatio == CalculateContrast(color1, color2)
        requiredRatio == Thresholds[level][textSize]
    IN [contrastRatio |-> contrastRatio,
        requiredRatio |-> requiredRatio,
        compliant     |-> contrastRatio >= requiredRatio]

\* a value above every contrast ratio, for `overallRating: Infinity`
InfinityRating == 1000000

\* SwatchGenerator.validateSwatch: the swatch without its random id; the pairs
\* are cyclic-adjacent, checkCompliance is called with the default text size
SGValidateSwatch(colors, wcagLevel) ==
    LET n == Len(colors)
        pair(i) == CheckCompliance(colors[i], colors[(i % n) + 1], wcagLevel, "normal")
        ratios == [i \in 1..n |-> pair(i).contrastRatio]
    IN [colors            |-> colors,
        adjacentContrasts |-> ratios,
        overallRating     |-> IF n = 0 THEN InfinityRating
                              ELSE CHOOSE m \in {ratios[i] : i \in 1..n} :
                                      \A i \in 1..n : m <= ratios[i],
        compliant         |-> \A i \in 1..n : pair(i).compliant,
        wcagLevel         |-> wcagLevel]

\* SwatchGenerator.generateCombinations: the count-element selections of
\* colors, by increasing index, in the order the recursion pushes them
RECURSIVE Generate(_, _, _, _)
Generate(colors, count, current, start) ==
    IF Len(current) = count
    THEN <<current>>
    ELSE LET RECURSIVE Loop(_)
             Loop(i) == IF i > Len(colors) THEN <<>>
                        ELSE Generate(colors, count, Append(current, colors[i]), i + 1)
                             \o Loop(i + 1)
         IN Loop(start)

\* a selection that hands back the whole array when it is too short
GenerateCombinations_Padded(colors, count) ==
    IF count > Len(colors) THEN <<colors>> ELSE Generate(colors, count, <<>>, 1)

GenerateCombinations(colors, count) == Generate(colors, count, <<>>, 1)

\* SwatchGenerator.generateRotations
GenerateRotations(colors) ==
    [i \in 1..Len(colors) |->
        SubSeq(colors, i, Len(colors)) \o SubSeq(colors, 1, i - 1)]

\* [...colors].sort(): the colours in increasing order
RECURSIVE SortColors(_)
SortColors(colors) ==
    IF Len(colors) = 0 THEN <<>>
    ELSE LET k == CHOOSE i \in 1..Len(colors) :
                     \A j \in 1..Len(colors) : colors[i] <= colors[j]
         IN <<colors[k]>> \o SortColors(SubSeq(colors, 1, k - 1)
                                        \o SubSeq(colors, k + 1, Len(colors)))

\* SwatchGenerator.getNormalizedKey: sorted.join('|'), kept as the sequence
GetNormalizedKey(colors) == SortColors(colors)

\* whether processBatch skips a combination: this.uniqueSwatches.has(key)
IsKnown(unique, key) == key \in unique

\* the body of processBatch for one combination; acc holds the results
\* object and this.uniqueSwatches
ProcessCombination(combination, wcagLevel, acc) ==
    LET key == GetNormalizedKey(combination)
        counted == [acc EXCEPT !.stats.generated = @ + 1]
    IN IF IsKnown(acc.unique, key)
       THEN [counted EXCEPT !.stats.duplicatesSkipped = @ + 1]
       ELSE LET rotations == GenerateRotations(combination)
                RECURSIVE Test(_, _)
                Test(i, a) ==
                    IF i > Len(rotations) THEN a
                    ELSE LET swatchResult == SGValidateSwatch(rotations[i], wcagLevel)
                             v == [a EXCEPT !.stats.validated = @ + 1]
                         IN Test(i + 1,
                                 IF swatchResult.compliant
                                 THEN [v EXCEPT !.stats.compliant = @ + 1,
                                                !.validSwatches = Append(@, swatchResult),
                                                !.unique = @ \cup {key}]
                                 ELSE v)
            IN Test(1, counted)

\* SwatchGenerator.processBatch
RECURSIVE ProcessBatch(_, _, _)
ProcessBatch(batch, wcagLevel, acc) ==
    IF Len(batch) = 0 THEN acc
    ELSE ProcessBatch(Tail(batch), wcagLevel,
                      ProcessCombination(Head(batch), wcagLevel, acc))

\* the loop of generatePermutations over the batches
RECURSIVE ProcessBatches(_, _, _, _)
ProcessBatches(combinations, i, wcagLevel, acc) ==
    IF i > Len(combinations) THEN acc
    ELSE ProcessBatches(combinations, i + BatchSize, wcagLevel,
            ProcessBatch(SubSeq(combinations, i, Min(i + BatchSize - 1, Len(combinations))),
                         wcagLevel, acc))

\* SwatchGenerator.generatePermutations(colorCount, wcagLevel): the results
\* object (without processingTime) and this.uniqueSwatches after the call
GeneratePermutationsResult(colorCount, wcagLevel, unique) ==
    IF colorCount < MinColorCount \/ colorCount > MaxColorCount
    THEN [outcome |-> "rangeError", unique |-> unique]
    ELSE LET combinations == GenerateCombinations(AllHexValues, colorCount)
             start == [outcome |-> "ok",
                       colorCount |-> colorCount,
                       wcagLevel |-> wcagLevel,
                       totalCombinations |-> Len(combinations),
                       validSwatches |-> <<>>,
                       stats |-> [generated |-> 0, validated |-> 0,
                                  compliant |-> 0, duplicatesSkipped |-> 0],
                       unique |-> unique]
         IN ProcessBatches(combinations, 1, wcagLevel, start)

\* the colour counts explored: below, inside and above the accepted range
ColorCounts == (MinColorCount - 1)..(MaxColorCount + 1)

\* the colours of the direct requests that differ in length: black, white,
\* red, blue, lime and yellow
SpecificPool ==
    << HexString("#RRGGBB", 0), HexString("#RRGGBB", 16777215),
       HexString("#RRGGBB", 16711680), HexString("#RRGGBB", 255),
       HexString("#RRGGBB", 65280), HexString("#RRGGBB", 16776960) >>

\* spellings of white, and black: '#FFFFFF', '#ffffff', '#FFF', 'white',
\* '#000000'
Spellings ==
    { HexString(form, 16777215) : form \in HexForms }
    \cup { NameString("white"), HexString("#RRGGBB", 0) }

\* the colour arrays given to generateSpecificSwatch: one of every length
\* around the accepted range, '#FFFFFF' followed by each spelling, and a pair
\* with a string that is no colour
SpecificRequests ==
    { SubSeq(SpecificPool, 1, k) : k \in ColorCounts }
    \cup { <<HexString("#RRGGBB", 16777215), second>> : second \in Spellings }
    \cup { <<HexString("#RRGGBB", 0), NoColorString>> }

\* the levels given to generateSpecificSwatch: its default
SpecificLevels == {"AA"}

\* a check that lets two more colours through
LengthInRange_UpTo7(n) == n >= MinColorCount /\ n <= MaxColorCount + 2

\* the check of colors.length in generateSpecificSwatch
LengthInRange(n) == ~(n < MinColorCount \/ n > MaxColorCount)

\* [...new Set(colors)].length !== colors.length: a Set holds a string once
HasDuplicates(colors) ==
    Cardinality({ colors[i] : i \in 1..Len(colors) }) # Len(colors)

\* SwatchGenerator.generateSpecificSwatch(colors, wcagLevel): what it throws,
\* or the swatch it stores and returns; validateSwatch parses every colour
\* and parseColor throws out of it
GenerateSpecificSwatchResult(colors, wcagLevel) ==
    IF ~LengthInRange(Len(colors)) THEN [outcome |-> "rangeError"]
    ELSE IF HasDuplicates(colors) THEN [outcome |-> "duplicateError"]
    ELSE IF \E i \in 1..Len(colors) : ParseColor(colors[i]).threw
    THEN [outcome |-> "parseError"]
    ELSE [outcome |-> "ok",
          swatch |-> SGValidateSwatch([i \in 1..Len(colors) |-> ParseColor(colors[i]).hex],
                                      wcagLevel)]

SGInit ==
    /\ uniqueSwatches = {}
    /\ generatedSwatches = <<>>
    /\ searchLog = <<>>

\* a call of generatePermutations(colorCount, wcagLevel)
GeneratePermutations(colorCount, wcagLevel) ==
    /\ Len(searchLog) < MaxSearches
    /\ LET r == GeneratePermutationsResult(colorCount, wcagLevel, uniqueSwatches)
       IN /\ uniqueSwatches' = r.unique
          /\ UNCHANGED generatedSwatches
          /\ searchLog' = Append(searchLog,
                [op |-> "generatePermutations", colorCount |-> colorCount,
                 wcagLevel |-> wcagLevel,
                 results |-> IF r.outcome = "ok"
                             THEN [outcome |-> "ok",
                                   totalCombinations |-> r.totalCombinations,
                                   validSwatches |-> r.validSwatches,
                                   stats |-> r.stats]
                             ELSE [outcome |-> r.outcome]])
    /\ UNCHANGED otherThanSG

\* a call of generateSpecificSwatch(colors, wcagLevel); the random id of the
\* swatch is taken to be fresh, so that set() adds an entry
GenerateSpecificSwatch(colors, wcagLevel) ==
    /\ Len(searchLog) < MaxSearches
    /\ LET r == GenerateSpecificSwatchResult(colors, wcagLevel)
       IN /\ generatedSwatches' = IF r.outcome = "ok"
                                  THEN Append(generatedSwatches, r.swatch)
                                  ELSE generatedSwatches
          /\ searchLog' = Append(searchLog,
                [op |-> "generateSpecificSwatch", colors |-> colors,
                 wcagLevel |-> wcagLevel, results |-> r])
    /\ UNCHANGED uniqueSwatches
    /\ UNCHANGED otherThanSG

\* a call of reset()
Reset ==
    /\ Len(searchLog) < MaxSearches
    /\ uniqueSwatches' = {}
    /\ generatedSwatches' = <<>>
    /\ searchLog' = Append(searchLog, [op |-> "reset"])
    /\ UNCHANGED otherThanSG

SGNext ==
    \/ \E colorCount \in ColorCounts, wcagLevel \in WcagLevels :
          GeneratePermutations(colorCount, wcagLevel)
    \/ \E colors \in SpecificRequests, wcagLevel \in SpecificLevels :
          GenerateSpecificSwatch(colors, wcagLevel)
    \/ Reset

(***************************************************************************)
(* CacheManager.  A string that is concatenated is a sequence of           *)
(* characters.  Times are whole days in ms and sizes whole KB in bytes, so *)
(* that the divisions of calculateCleanupScore are exact.                  *)
(***************************************************************************)

\* config.keyPrefix || 'wcag_'
KeyPrefix == <<"w", "c", "a", "g", "_">>

\* the device fingerprint the cache is initialized with
DeviceFingerprint == <<"f", "p">>

\* the fingerprint of another device or caller that uses the same database
OtherFingerprint == <<"g", "q">>

\* the scope keys a cache is initialized with
Fingerprints == {DeviceFingerprint, OtherFingerprint}

\* the asset keys used
CacheKeys == { <<"a">>, <<"b">> }

\* one more asset key, for the runs that fill the cache
ThirdKey == <<"c">>
EvictionKeys == CacheKeys \cup {ThirdKey}

\* the configuration of the cache under test
Config == [maxAge |-> MaxAgeDays * OneDay,
           maxSize |-> MaxSizeKB * 1024,
           compressionEnabled |-> TRUE]

\* the data stored: ArrayBuffers and strings with their size in bytes and the
\* size gzip gives them
\*   small : below the compression threshold
\*   text  : a string that gzip shrinks
\*   dense : an ArrayBuffer that gzip shrinks
\*   noise : an ArrayBuffer that gzip cannot shrink
DataValues ==
    { [kind |-> "buffer", content |-> "small", size |-> 1024, gzipSize |-> 1024],
      [kind |-> "string", content |-> "text",  size |-> 2048, gzipSize |-> 1024],
      [kind |-> "buffer", content |-> "dense", size |-> 2048, gzipSize |-> 1024],
      [kind |-> "buffer", content |-> "noise", size |-> 4096, gzipSize |-> 4096] }

\* the data of the runs that fill the cache: ArrayBuffers stored as they are
\* or as a gzip stream of the same size
FillData == { d \in DataValues : d.kind = "buffer" /\ d.gzipSize = d.size }

\* calculateSize(data): byteLength of a buffer, Blob size of a string
CalculateSize(data) == IF data.kind = "gzip" THEN data.of.gzipSize ELSE data.size

\* compressData(data): the gzip stream of the data's bytes, as an ArrayBuffer
CompressData(data) == [kind |-> "gzip", of |-> data]

\* decompressData(data): the bytes the gzip stream holds, as an ArrayBuffer;
\* data that is no gzip stream makes the stream fail and is returned as it is
DecompressData(data) ==
    IF data.kind = "gzip"
    THEN [data.of EXCEPT !.kind = "buffer"]
    ELSE data

\* generateCacheKey(key): `${keyPrefix}${fingerprint}_${key}`
GenerateCacheKey(fp, key) == KeyPrefix \o fp \o <<"_">> \o key

\* the ids of one scope and of all scopes
ScopeIds(fp) == { GenerateCacheKey(fp, key) : key \in EvictionKeys }
CacheIds == UNION { ScopeIds(fp) : fp \in Fingerprints }

\* isExpired with the boundary included
IsExpired_Inclusive(entry, t) == t - entry.timestamp >= Config.maxAge

\* isExpired(entry)
IsExpired(entry, t) == t - entry.timestamp > Config.maxAge

\* the initial this.cacheStats
ZeroStats == [hits |-> 0, misses |-> 0, totalSize |-> 0, itemCount |-> 0]

\* dbStore('assets', entry): put under the key path 'id'
DbStore(store, entry) ==
    [i \in DOMAIN store \cup {entry.id} |-> IF i = entry.id THEN entry ELSE store[i]]

\* dbDelete('assets', id)
DbDelete(store, id) == [i \in DOMAIN store \ {id} |-> store[i]]

\* dbDelete for every id of a set
DbDeleteAll(store, ids) == [i \in DOMAIN store \ ids |-> store[i]]

\* the empty object store
EmptyStore == [i \in {} |-> {}]

\* calculateCleanupScore(entry, now): the score as a fraction num/den, or what
\* the division by an age of 0 gives: NaN for 0/0, Infinity for n/0
CalculateCleanupScore(entry, t) ==
    LET ageDays == (t - entry.timestamp) \div OneDay
        lastAccessed == t - entry.lastAccessed
    IN IF ageDays = 0
       THEN [kind |-> IF entry.accessCount = 0 THEN "nan" ELSE "inf", num |-> 0, den |-> 1]
       ELSE [kind |-> "num",
             num  |-> entry.accessCount * 1000
                        - ((lastAccessed \div 1000) + (entry.size \div 1024)) * ageDays,
             den  |-> ageDays]

\* the sign of `bScore - aScore`, the value of the sort's comparator for (a, b);
\* a NaN result counts as 0
CompareEntries(a, b, t) ==
    LET sa == CalculateCleanupScore(a, t)
        sb == CalculateCleanupScore(b, t)
    IN IF sa.kind = "nan" \/ sb.kind = "nan" THEN 0
       ELSE IF sa.kind = "inf" /\ sb.kind = "inf" THEN 0
       ELSE IF sb.kind = "inf" THEN 1
       ELSE IF sa.kind = "inf" THEN -1
       ELSE LET d == sb.num * sa.den - sa.num * sb.den
            IN IF d > 0 THEN 1 ELSE IF d < 0 THEN -1 ELSE 0

\* the orders of a set of entries
Orders(entries) ==
    { p \in [1..Cardinality(entries) -> entries] :
        \A i, j \in 1..Cardinality(entries) : i # j => p[i] # p[j] }

\* allEntries.sort(comparator): an order no pair of which the comparator puts
\* the other way round (entries that compare equal in any order); when NaN
\* scores make the comparator inconsistent, the order is whatever the sort
\* algorithm produces
SortedEntries(entries, t) ==
    LET consistent ==
            \/ \A e \in entries : CalculateCleanupScore(e, t).kind # "nan"
            \/ \A a, b \in entries : CompareEntries(a, b, t) = 0
    IN IF consistent
       THEN { p \in Orders(entries) :
                \A i, j \in 1..Cardinality(entries) :
                    i < j => CompareEntries(p[i], p[j], t) <= 0 }
       ELSE Orders(entries)

\* the eviction loop of cleanup over remainingEntries.reverse(): the ids
\* deleted and the counters left
RECURSIVE Evict(_, _, _, _, _)
Evict(entries, k, currentSize, currentCount, deleted) ==
    IF k < 1 \/ (currentSize * 10 <= Config.maxSize * 7 /\ currentCount <= TargetCount)
    THEN [deleted |-> deleted, size |-> currentSize, count |-> currentCount]
    ELSE Evict(entries, k - 1, currentSize - entries[k].size, currentCount - 1,
               deleted \cup {entries[k].id})

\* cleanup(options) on the sorted entries: the store and this.cacheStats after it
CleanupResult(store, stats, sorted, urgent, t) ==
    LET n == Len(sorted)
        expired == { i \in 1..n : IsExpired(sorted[i], t) }
        expiredSize == LET RECURSIVE Sum(_)
                           Sum(i) == IF i > n THEN 0
                                     ELSE (IF i \in expired THEN sorted[i].size ELSE 0) + Sum(i + 1)
                       IN Sum(1)
        afterExpiry == [stats EXCEPT !.itemCount = @ - Cardinality(expired),
                                     !.totalSize = @ - expiredSize]
        remaining == LET RECURSIVE Keep(_)
                         Keep(i) == IF i > n THEN <<>>
                                    ELSE (IF i \in expired THEN <<>> ELSE <<sorted[i]>>) \o Keep(i + 1)
                     IN Keep(1)
        evicting == \/ urgent
                    \/ afterExpiry.totalSize * 10 > Config.maxSize * 9
                    \/ afterExpiry.itemCount > CountLimit
        ev == Evict(remaining, Len(remaining), afterExpiry.totalSize,
                    afterExpiry.itemCount, {})
        gone == { sorted[i].id : i \in expired } \cup (IF evicting THEN ev.deleted ELSE {})
    IN [store   |-> DbDeleteAll(store, gone),
        stats   |-> IF evicting
                    THEN [afterExpiry EXCEPT !.totalSize = ev.size, !.itemCount = ev.count]
                    ELSE afterExpiry,
        cleaned |-> Cardinality(gone)]

\* the entries of the store
AllEntries(store) == { store[i] : i \in DOMAIN store }

\* no storeAsset call runs step by step for a key
NoCall == [pc |-> "done"]

CMInit ==
    /\ cmInitialized = FALSE
    /\ fingerprint = <<>>
    /\ assets = EmptyStore
    /\ cacheStats = ZeroStats
    /\ metadataStats = [saved |-> FALSE]
    /\ now = 0
    /\ cmResult = [op |-> "none"]
    /\ lastStored = [id \in CacheIds |-> [kind |-> "none"]]
    /\ storedBytes = 0
    /\ storeCalls = [key \in CacheKeys |-> NoCall]
    /\ storeTotals = [calls |-> 0, storedCount |-> 0, storedBytes |-> 0,
                      deletedCount |-> 0, deletedBytes |-> 0]
    /\ cacheOps = 0

\* one more CacheManager call
CountOp ==
    /\ cacheOps < MaxCacheOps
    /\ cacheOps' = cacheOps + 1

\* saveCacheStats(): the record written to the metadata store
SavedStats(stats) == [saved |-> TRUE, value |-> stats]

\* new CacheManager(config) on the same database, as after a page reload
CMConstruct ==
    /\ CountOp
    /\ cmInitialized
    /\ cmInitialized' = FALSE
    /\ fingerprint' = <<>>
    /\ cacheStats' = ZeroStats
    /\ cmResult' = [op |-> "construct"]
    /\ UNCHANGED <<assets, metadataStats, now, lastStored, storedBytes>>
    /\ UNCHANGED otherThanCM

\* initialize(deviceFingerprint): opens the database and loads the statistics
CMInitialize(deviceFingerprint) ==
    /\ IF cmInitialized
       THEN UNCHANGED <<fingerprint, cacheStats, cmInitialized>>
       ELSE /\ fingerprint' = deviceFingerprint
            /\ cacheStats' = IF metadataStats.saved THEN metadataStats.value ELSE cacheStats
            /\ cmInitialized' = TRUE
    /\ cmResult' = [op |-> "initialize", value |-> "true"]
    /\ UNCHANGED <<assets, metadataStats, now, lastStored, storedBytes, cacheOps>>
    /\ UNCHANGED otherThanCM

\* whether storeAsset compresses: compressionEnabled && size > 1024
ShouldCompress(data) == Config.compressionEnabled /\ CalculateSize(data) > CompressThreshold

\* metadata.compressed as storeAsset computes it
CompressedFlag(data, size) == Config.compressionEnabled /\ size < CalculateSize(data)

\* the urgent cleanup already at 10% of maxSize
NeedsUrgentCleanup_Inclusive(size) == size * 10 >= Config.maxSize

\* `size > this.config.maxSize * 0.1`: the entry needs an urgent cleanup first
NeedsUrgentCleanup(size) == size * 10 > Config.maxSize

\* the cacheEntry storeAsset builds
NewEntry(id, key, data, processedData, size, timestamp) ==
    [id |-> id, key |-> key, data |-> processedData,
     metadata |-> [originalSize |-> CalculateSize(data),
                   compressedSize |-> size,
                   compressed |-> CompressedFlag(data, size)],
     timestamp |-> timestamp, accessCount |-> 0,
     lastAccessed |-> timestamp, size |-> size]

\* storeAsset(key, data)
StoreAsset(key, data) ==
    /\ CountOp
    /\ IF ~cmInitialized
       THEN /\ cmResult' = [op |-> "storeAsset", key |-> key, value |-> "throws"]
            /\ UNCHANGED <<assets, cacheStats, metadataStats, lastStored, storedBytes>>
       ELSE LET id == GenerateCacheKey(fingerprint, key)
                processedData == IF ShouldCompress(data) THEN CompressData(data) ELSE data
                size == CalculateSize(processedData)
                urgent == NeedsUrgentCleanup(size)
                cacheEntry == NewEntry(id, key, data, processedData, size, now)
            IN \E sorted \in SortedEntries(AllEntries(assets), now) :
                 LET c == IF urgent
                          THEN CleanupResult(assets, cacheStats, sorted, TRUE, now)
                          ELSE [store |-> assets, stats |-> cacheStats]
                     stats == [c.stats EXCEPT !.itemCount = @ + 1, !.totalSize = @ + size]
                 IN /\ assets' = DbStore(c.store, cacheEntry)
                    /\ cacheStats' = stats
                    /\ metadataStats' = SavedStats(stats)
                    /\ lastStored' = [lastStored EXCEPT ![id] = data]
                    /\ storedBytes' = storedBytes + size
                    /\ cmResult' = [op |-> "storeAsset", key |-> key, value |-> "true"]
    /\ UNCHANGED <<cmInitialized, fingerprint, now>>
    /\ UNCHANGED otherThanCM

\* removeAsset(key) on a store and statistics: what it leaves
RemoveResult(store, stats, id) ==
    IF id \in DOMAIN store
    THEN [store |-> DbDelete(store, id),
          stats |-> [stats EXCEPT !.itemCount = @ - 1, !.totalSize = @ - store[id].size],
          saved |-> TRUE]
    ELSE [store |-> store, stats |-> stats, saved |-> FALSE]

\* retrieveAsset(key)
RetrieveAsset(key) ==
    /\ CountOp
    /\ IF ~cmInitialized
       THEN /\ cmResult' = [op |-> "retrieveAsset", key |-> key, value |-> "throws"]
            /\ UNCHANGED <<assets, cacheStats, metadataStats>>
       ELSE LET id == GenerateCacheKey(fingerprint, key) IN
            IF id \notin DOMAIN assets
            THEN /\ cacheStats' = [cacheStats EXCEPT !.misses = @ + 1]
                 /\ cmResult' = [op |-> "retrieveAsset", key |-> key, value |-> "null",
                                 found |-> "absent"]
                 /\ UNCHANGED <<assets, metadataStats>>
            ELSE IF IsExpired(assets[id], now)
            THEN LET r == RemoveResult(assets, cacheStats, id) IN
                 /\ assets' = r.store
                 /\ metadataStats' = SavedStats(r.stats)
                 /\ cacheStats' = [r.stats EXCEPT !.misses = @ + 1]
                 /\ cmResult' = [op |-> "retrieveAsset", key |-> key, value |-> "null",
                                 found |-> "expired"]
            ELSE LET cacheEntry == [assets[id] EXCEPT !.accessCount = @ + 1,
                                                      !.lastAccessed = now]
                     data == IF cacheEntry.metadata.compressed
                             THEN DecompressData(cacheEntry.data)
                             ELSE cacheEntry.data
                 IN /\ assets' = DbStore(assets, cacheEntry)
                    /\ cacheStats' = [cacheStats EXCEPT !.hits = @ + 1]
                    /\ cmResult' = [op |-> "retrieveAsset", key |-> key, value |-> "entry",
                                    found |-> "hit", data |-> data,
                                    metadata |-> cacheEntry.metadata,
                                    timestamp |-> cacheEntry.timestamp]
                    /\ UNCHANGED metadataStats
    /\ UNCHANGED <<cmInitialized, fingerprint, now, lastStored, storedBytes>>
    /\ UNCHANGED otherThanCM

\* removeAsset(key)
RemoveAsset(key) ==
    /\ CountOp
    /\ IF ~cmInitialized
       THEN /\ cmResult' = [op |-> "removeAsset", key |-> key, value |-> "false"]
            /\ UNCHANGED <<assets, cacheStats, metadataStats>>
       ELSE LET r == RemoveResult(assets, cacheStats, GenerateCacheKey(fingerprint, key)) IN
            /\ assets' = r.store
            /\ cacheStats' = r.stats
            /\ metadataStats' = IF r.saved THEN SavedStats(r.stats) ELSE metadataStats
            /\ cmResult' = [op |-> "removeAsset", key |-> key, value |-> "true"]
    /\ UNCHANGED <<cmInitialized, fingerprint, now, lastStored, storedBytes>>
    /\ UNCHANGED otherThanCM

\* hasAsset(key): `cacheEntry && !this.isExpired(cacheEntry)`
HasAsset(key) ==
    /\ CountOp
    /\ LET id == GenerateCacheKey(fingerprint, key) IN
       cmResult' = [op |-> "hasAsset", key |-> key,
                    value |-> IF ~cmInitialized THEN "false"
                              ELSE IF id \notin DOMAIN assets THEN "undefined"
                              ELSE IF IsExpired(assets[id], now) THEN "false"
                              ELSE "true"]
    /\ UNCHANGED <<cmInitialized, fingerprint, assets, cacheStats, metadataStats, now,
                   lastStored, storedBytes>>
    /\ UNCHANGED otherThanCM

\* clearCache()
ClearCache ==
    /\ CountOp
    /\ IF ~cmInitialized
       THEN /\ cmResult' = [op |-> "clearCache", value |-> "false"]
            /\ UNCHANGED <<assets, cacheStats, metadataStats>>
       ELSE /\ assets' = EmptyStore
            /\ cacheStats' = ZeroStats
            /\ metadataStats' = SavedStats(ZeroStats)
            /\ cmResult' = [op |-> "clearCache", value |-> "true"]
    /\ UNCHANGED <<cmInitialized, fingerprint, now, lastStored, storedBytes>>
    /\ UNCHANGED otherThanCM

\* cleanup(), called by the caller or by the hourly timer of scheduleCleanup
Cleanup ==
    /\ CountOp
    /\ IF ~cmInitialized
       THEN /\ cmResult' = [op |-> "cleanup", value |-> 0]
            /\ UNCHANGED <<assets, cacheStats, metadataStats>>
       ELSE \E sorted \in SortedEntries(AllEntries(assets), now) :
              LET c == CleanupResult(assets, cacheStats, sorted, FALSE, now) IN
              /\ assets' = c.store
              /\ cacheStats' = c.stats
              /\ metadataStats' = SavedStats(c.stats)
              /\ cmResult' = [op |-> "cleanup", value |-> c.cleaned]
    /\ UNCHANGED <<cmInitialized, fingerprint, now, lastStored, storedBytes>>
    /\ UNCHANGED otherThanCM

\* a day passes
Tick ==
    /\ now < MaxClockDays * OneDay
    /\ now' = now + OneDay
    /\ UNCHANGED <<cmInitialized, fingerprint, assets, cacheStats, metadataStats,
                   cmResult, lastStored, storedBytes, cacheOps>>
    /\ UNCHANGED otherThanCM

CMNext ==
    \/ CMConstruct
    \/ CMInitialize(DeviceFingerprint)
    \/ \E key \in CacheKeys, data \in DataValues : StoreAsset(key, data)
    \/ \E key \in CacheKeys : RetrieveAsset(key)
    \/ \E key \in CacheKeys : RemoveAsset(key)
    \/ \E key \in CacheKeys : HasAsset(key)
    \/ ClearCache
    \/ Cleanup
    \/ Tick

(***************************************************************************)
(* storeAsset step by step: a call runs to its next await, other calls may *)
(* run while it waits, and a database request takes effect when its await  *)
(* resumes.                                                                *)
(***************************************************************************)

\* the CacheManager state the steps of storeAsset leave alone
cmHistory == <<cmInitialized, fingerprint, now, cmResult, lastStored, storedBytes, cacheOps>>

\* the keys whose call has not returned
InFlight == { key \in CacheKeys : storeCalls[key].pc # "done" }

\* the locals of a storeAsset call at its start
NewCall(key, data, t) ==
    [key |-> key, data |-> data, processedData |-> data, size |-> CalculateSize(data),
     timestamp |-> t, pc |-> "start", cleanup |-> "none", sorted |-> <<>>, idx |-> 0,
     remaining |-> <<>>, currentSize |-> 0, currentCount |-> 0, saved |-> ZeroStats]

\* storeAsset once the stored size is known: the urgent cleanup starts with
\* dbGetAll, or the entry is handed to dbStore
AfterSize(rec) ==
    IF NeedsUrgentCleanup(rec.size)
    THEN [rec EXCEPT !.pc = "getAll", !.cleanup = "running"]
    ELSE [rec EXCEPT !.pc = "put"]

\* a sequence in reverse
Reverse(seq) == [i \in 1..Len(seq) |-> seq[Len(seq) + 1 - i]]

\* the entries of a sequence that are not expired
RECURSIVE NotExpired(_, _)
NotExpired(seq, t) ==
    IF seq = <<>> THEN <<>>
    ELSE (IF IsExpired(Head(seq), t) THEN <<>> ELSE <<Head(seq)>>) \o NotExpired(Tail(seq), t)

\* the eviction loop of cleanup up to its next dbDelete, or past its end, where
\* the counters are written back and saveCacheStats is called
EvictLoop(rec, stats) ==
    IF \/ rec.remaining = <<>>
       \/ (rec.currentSize * 10 <= Config.maxSize * 7 /\ rec.currentCount <= TargetCount)
    THEN LET st == [stats EXCEPT !.totalSize = rec.currentSize,
                                 !.itemCount = rec.currentCount]
         IN [rec |-> [rec EXCEPT !.pc = "saveCleanup", !.saved = st], stats |-> st]
    ELSE [rec |-> [rec EXCEPT !.pc = "evict"], stats |-> stats]

\* cleanup({urgentCleanup: true}) after its loop over the expired entries
StartEviction(rec, stats, t) ==
    EvictLoop([rec EXCEPT !.remaining = Reverse(NotExpired(rec.sorted, t)),
                          !.currentSize = stats.totalSize,
                          !.currentCount = stats.itemCount], stats)

\* the loop of cleanup over the expired entries from index i, up to its next
\* dbDelete
ExpiredLoop(rec, stats, i, t) ==
    LET next == { k \in i..Len(rec.sorted) : IsExpired(rec.sorted[k], t) }
    IN IF next # {}
       THEN [rec |-> [rec EXCEPT !.pc = "delExpired",
                                 !.idx = CHOOSE k \in next : \A j \in next : k <= j],
             stats |-> stats]
       ELSE StartEviction(rec, stats, t)

\* the totals with one more entry taken off the counters by cleanup, which
\* subtracts the size the entry had when cleanup read it
Deleted(totals, entry) ==
    [totals EXCEPT !.deletedCount = @ + 1, !.deletedBytes = @ + entry.size]

\* storeAsset(key, data) up to its first await
StoreBegin(key, data) ==
    /\ storeTotals.calls < MaxStoreCalls
    /\ key \notin InFlight
    /\ cmInitialized
    /\ storeCalls' = [storeCalls EXCEPT ![key] =
           IF ShouldCompress(data) THEN [NewCall(key, data, now) EXCEPT !.pc = "compress"]
           ELSE AfterSize(NewCall(key, data, now))]
    /\ storeTotals' = [storeTotals EXCEPT !.calls = @ + 1]
    /\ UNCHANGED <<assets, cacheStats, metadataStats>>
    /\ UNCHANGED cmHistory
    /\ UNCHANGED otherThanCache

\* after `await this.compressData(data)`
AfterCompress(key) ==
    /\ storeCalls[key].pc = "compress"
    /\ LET processedData == CompressData(storeCalls[key].data) IN
       storeCalls' = [storeCalls EXCEPT ![key] =
           AfterSize([@ EXCEPT !.processedData = processedData,
                               !.size = CalculateSize(processedData)])]
    /\ UNCHANGED <<assets, cacheStats, metadataStats, storeTotals>>
    /\ UNCHANGED cmHistory
    /\ UNCHANGED otherThanCache

\* cleanup after `await this.dbGetAll('assets')`
AfterGetAll(key) ==
    /\ storeCalls[key].pc = "getAll"
    /\ \E sorted \in SortedEntries(AllEntries(assets), now) :
         LET r == ExpiredLoop([storeCalls[key] EXCEPT !.sorted = sorted], cacheStats, 1, now)
         IN /\ storeCalls' = [storeCalls EXCEPT ![key] = r.rec]
            /\ cacheStats' = r.stats
    /\ UNCHANGED <<assets, metadataStats, storeTotals>>
    /\ UNCHANGED cmHistory
    /\ UNCHANGED otherThanCache

\* cleanup after the `await this.dbDelete` of an expired entry
AfterDeleteExpired(key) ==
    /\ storeCalls[key].pc = "delExpired"
    /\ LET rec == storeCalls[key]
           entry == rec.sorted[rec.idx]
           stats == [cacheStats EXCEPT !.itemCount = @ - 1, !.totalSize = @ - entry.size]
           r == ExpiredLoop(rec, stats, rec.idx + 1, now)
       IN /\ assets' = DbDelete(assets, entry.id)
          /\ storeTotals' = Deleted(storeTotals, entry)
          /\ storeCalls' = [storeCalls EXCEPT ![key] = r.rec]
          /\ cacheStats' = r.stats
    /\ UNCHANGED metadataStats
    /\ UNCHANGED cmHistory
    /\ UNCHANGED otherThanCache

\* cleanup after the `await this.dbDelete` of an evicted entry
AfterEvict(key) ==
    /\ storeCalls[key].pc = "evict"
    /\ LET rec == storeCalls[key]
           entry == Head(rec.remaining)
           r == EvictLoop([rec EXCEPT !.remaining = Tail(@),
                                      !.currentSize = @ - entry.size,
                                      !.currentCount = @ - 1], cacheStats)
       IN /\ assets' = DbDelete(assets, entry.id)
          /\ storeTotals' = Deleted(storeTotals, entry)
          /\ storeCalls' = [storeCalls EXCEPT ![key] = r.rec]
          /\ cacheStats' = r.stats
    /\ UNCHANGED metadataStats
    /\ UNCHANGED cmHistory
    /\ UNCHANGED otherThanCache

\* after the `await this.saveCacheStats()` of cleanup: cleanup returns and
\* storeAsset hands the entry to dbStore
AfterSaveCleanup(key) ==
    /\ storeCalls[key].pc = "saveCleanup"
    /\ metadataStats' = SavedStats(storeCalls[key].saved)
    /\ storeCalls' = [storeCalls EXCEPT ![key] =
           [@ EXCEPT !.pc = "put", !.cleanup = "done", !.sorted = <<>>, !.idx = 0,
                     !.remaining = <<>>, !.currentSize = 0, !.currentCount = 0,
                     !.saved = ZeroStats]]
    /\ UNCHANGED <<assets, cacheStats, storeTotals>>
    /\ UNCHANGED cmHistory
    /\ UNCHANGED otherThanCache

\* after `await this.dbStore('assets', cacheEntry)`: the counters are updated
\* and saveCacheStats is called
AfterPut(key) ==
    /\ storeCalls[key].pc = "put"
    /\ LET rec == storeCalls[key]
           stats == [cacheStats EXCEPT !.itemCount = @ + 1, !.totalSize = @ + rec.size]
       IN /\ assets' = DbStore(assets, NewEntry(GenerateCacheKey(fingerprint, rec.key),
                                                rec.key, rec.data, rec.processedData,
                                                rec.size, rec.timestamp))
          /\ cacheStats' = stats
          /\ storeTotals' = [storeTotals EXCEPT !.storedCount = @ + 1,
                                                !.storedBytes = @ + rec.size]
          /\ storeCalls' = [storeCalls EXCEPT ![key] = [@ EXCEPT !.pc = "saveStore",
                                                                 !.saved = stats]]
    /\ UNCHANGED metadataStats
    /\ UNCHANGED cmHistory
    /\ UNCHANGED otherThanCache

\* after the `await this.saveCacheStats()` of storeAsset: it returns true
AfterSaveStore(key) ==
    /\ storeCalls[key].pc = "saveStore"
    /\ metadataStats' = SavedStats(storeCalls[key].saved)
    /\ storeCalls' = [storeCalls EXCEPT ![key] = NoCall]
    /\ UNCHANGED <<assets, cacheStats, storeTotals>>
    /\ UNCHANGED cmHistory
    /\ UNCHANGED otherThanCache

\* a day passes between calls: the awaits of a call take far less than a day
QuietTick ==
    /\ InFlight = {}
    /\ Tick

StoreNext ==
    \/ CMInitialize(DeviceFingerprint)
    \/ \E key \in CacheKeys, data \in FillData : StoreBegin(key, data)
    \/ \E key \in CacheKeys : AfterCompress(key)
    \/ \E key \in CacheKeys : AfterGetAll(key)
    \/ \E key \in CacheKeys : AfterDeleteExpired(key)
    \/ \E key \in CacheKeys : AfterEvict(key)
    \/ \E key \in CacheKeys : AfterSaveCleanup(key)
    \/ \E key \in CacheKeys : AfterPut(key)
    \/ \E key \in CacheKeys : AfterSaveStore(key)
    \/ QuietTick

(***************************************************************************)
(* ValidationEngine (src/src/color/validation-engine.js), with parseColor   *)
(* and normalizeHex of the ColorParser.  A colour argument is a hex string, *)
(* an HTML colour name or a string that is neither; the first two carry the *)
(* number their normalized hex string denotes.  Contrast ratios are times   *)
(* 100, as in CalculateContrast.  A call on a rule either returns a rule    *)
(* result or throws.                                                        *)
(***************************************************************************)

\* the colours given to the engine: '#000000', '#FFFFFF', '#FF0000', the name
\* 'yellow' (#FFFF00) and a string that is no colour
ColorInputs ==
    { HexString("#RRGGBB", 0), HexString("#RRGGBB", 16777215),
      HexString("#RRGGBB", 16711680), NameString("yellow"), NoColorString }

\* the sequences over a set of length 0..n
SeqsUpTo(S, n) == UNION { [1..k -> S] : k \in 0..n }

\* the swatch arguments: null, an object without colors, and objects whose
\* colors is an array of up to MaxSwatchLen colours
Swatches ==
    { [shape |-> "null", colors |-> <<>>], [shape |-> "noColors", colors |-> <<>>] }
    \cup { [shape |-> "colors", colors |-> s] : s \in SeqsUpTo(ColorInputs, MaxSwatchLen) }

\* the rules of initializeDefaultRules
BuiltInRules == {"wcag_compliance", "no_duplicates", "min_contrast", "color_count",
                 "color_format"}

\* the default of options.rules
DefaultRules == <<"wcag_compliance", "no_duplicates", "color_count", "color_format">>

\* the rule that addCustomRule registers; its validate throws
CustomRule == "custom"

\* the ids given to addCustomRule: an id of its own and the id of a built-in
CustomRuleIds == {"custom", "wcag_compliance"}

\* the values of options.rules explored; 'contrast_aaa' is in no registry
RuleLists ==
    { DefaultRules,
      <<>>,
      <<"wcag_compliance">>,
      <<"min_contrast", "wcag_compliance">>,
      <<"contrast_aaa", "color_count">>,
      <<"custom", "color_format">>,
      <<"no_duplicates", "wcag_compliance">>,
      <<"color_format", "contrast_aaa">> }

\* the options explored: every level and text size with every rule list, the
\* level 'A', which is no key of the thresholds, and a minContrast of 4.5 where
\* the min_contrast rule is named; minContrast 0 stands for null; minColors and
\* maxColors keep their defaults
OptionValues ==
    { o \in [wcagLevel : {"AA", "AAA", "A"}, textSize : {"normal", "large"},
             minContrast : {0, 450}, minColors : {VEMinColors},
             maxColors : {VEMaxColors}, rules : RuleLists] :
        /\ o.wcagLevel = "A" => o.textSize = "normal"
        /\ o.minContrast # 0 => \E i \in 1..Len(o.rules) : o.rules[i] = "min_contrast" }

\* WCAGCalculator.calculateContrast on colour arguments
ContrastOf(color1, color2) ==
    LET Contrast(hex1, hex2) ==
            IF hex1.threw \/ hex2.threw
            THEN [threw |-> TRUE, contrastRatio |-> 0]
            ELSE [threw |-> FALSE, contrastRatio |-> CalculateContrast(hex1.hex, hex2.hex)]
    IN Contrast(ParseColor(color1), ParseColor(color2))

\* WCAGCalculator.checkCompliance on colour arguments: this.thresholds[level]
\* is undefined for an unknown level, and reading [textSize] of it throws
ComplianceOf(color1, color2, level, textSize) ==
    LET Compliance(c, hex1, hex2) ==
            IF c.threw \/ level \notin WcagLevels
            THEN [threw |-> TRUE, contrastRatio |-> 0, compliant |-> FALSE]
            ELSE [threw |-> FALSE, contrastRatio |-> c.contrastRatio,
                  compliant |-> CheckCompliance(hex1.hex, hex2.hex, level, textSize).compliant]
    IN Compliance(ContrastOf(color1, color2), ParseColor(color1), ParseColor(color2))

\* a rule result, and a rule that threw
RuleResult(valid, errors, warnings, lowestContrast) ==
    [threw |-> FALSE, valid |-> valid, errors |-> errors, warnings |-> warnings,
     lowestContrast |-> lowestContrast]

Thrown == [threw |-> TRUE, valid |-> FALSE, errors |-> <<>>, warnings |-> <<>>,
           lowestContrast |-> 0]

\* the indices of `for (let i = 0; i < swatch.colors.length; i++)`, from 1
PairIndices_Open(n) == 1..(n - 1)

PairIndices(n) == 1..n

\* nextIndex = (i + 1) % swatch.colors.length, from 1
NextIndex(i, n) == (i % n) + 1

\* the messages a loop over the indices 1..n pushes, in order
RECURSIVE Messages(_, _, _)
Messages(failed, text, n) ==
    IF n = 0 THEN <<>>
    ELSE Messages(failed, text, n - 1) \o (IF n \in failed THEN <<text>> ELSE <<>>)

\* the least of a set of numbers, or the given value for the empty set
Lowest(S, ifNone) == IF S = {} THEN ifNone ELSE CHOOSE x \in S : \A y \in S : x <= y

\* validateWCAGCompliance
ValidateWCAGCompliance(swatch, params) ==
    IF swatch.shape = "null" THEN Thrown
    ELSE IF swatch.shape = "noColors" \/ Len(swatch.colors) < 2
    THEN RuleResult(FALSE, <<"Swatch must have at least 2 colors">>, <<>>, InfinityRating)
    ELSE LET n == Len(swatch.colors)
             Result(compliance) ==
                 LET threw == { i \in PairIndices(n) : compliance[i].threw }
                     failing == { i \in PairIndices(n) \ threw : ~compliance[i].compliant }
                     errors == [i \in PairIndices(n) |->
                                   IF i \in threw THEN <<"Failed to calculate contrast">>
                                   ELSE IF i \in failing
                                   THEN <<"Adjacent colors do not meet standards">>
                                   ELSE <<>>]
                     Concat[k \in 0..n] ==
                         IF k = 0 THEN <<>>
                         ELSE Concat[k - 1] \o (IF k \in PairIndices(n) THEN errors[k] ELSE <<>>)
                 IN RuleResult(threw = {} /\ failing = {},
                               Concat[n],
                               <<>>,
                               Lowest({ compliance[i].contrastRatio : i \in PairIndices(n) \ threw },
                                      InfinityRating))
         IN Result([i \in PairIndices(n) |->
                       ComplianceOf(swatch.colors[i], swatch.colors[NextIndex(i, n)],
                                    params.wcagLevel, params.textSize)])

\* validateNoDuplicates: normalizeHex throws out of the rule on anything but a
\* hex string
ValidateNoDuplicates(swatch, params) ==
    IF swatch.shape = "null" THEN Thrown
    ELSE IF swatch.shape = "noColors"
    THEN RuleResult(FALSE, <<"Swatch colors must be an array">>, <<>>, 0)
    ELSE LET n == Len(swatch.colors)
             norm(i) == NormalizeHex(swatch.colors[i]).hex
         IN IF \E i \in 1..n : NormalizeHex(swatch.colors[i]).threw THEN Thrown
            ELSE LET first == { i \in 1..n :
                                  /\ \A j \in 1..(i - 1) : norm(j) # norm(i)
                                  /\ \E j \in (i + 1)..n : norm(j) = norm(i) }
                 IN RuleResult(first = {}, Messages(first, "Color appears at positions", n),
                               <<>>, 0)

\* validateMinContrast
ValidateMinContrast(swatch, params) ==
    IF params.minContrast = 0
    THEN RuleResult(TRUE, <<>>, <<"No minimum contrast specified">>, 0)
    ELSE IF swatch.shape # "colors" THEN Thrown
    ELSE LET n == Len(swatch.colors)
             Result(contrast) ==
                 LET threw == { i \in 1..n : contrast[i].threw }
                     failing == { i \in (1..n) \ threw :
                                    contrast[i].contrastRatio < params.minContrast }
                     Concat[k \in 0..n] ==
                         IF k = 0 THEN <<>>
                         ELSE Concat[k - 1]
                              \o (IF k \in threw THEN <<"Failed to calculate contrast">>
                                  ELSE IF k \in failing THEN <<"Contrast below required">>
                                  ELSE <<>>)
                 IN RuleResult(threw = {} /\ failing = {}, Concat[n], <<>>, 0)
         IN Result([i \in 1..n |->
                       ContrastOf(swatch.colors[i], swatch.colors[NextIndex(i, n)])])

\* validateColorCount
ValidateColorCount(swatch, params) ==
    IF swatch.shape = "null" THEN Thrown
    ELSE IF swatch.shape = "noColors"
    THEN RuleResult(FALSE, <<"Swatch colors must be an array">>, <<>>, 0)
    ELSE LET n == Len(swatch.colors)
             few == IF n < params.minColors THEN <<"minimum required">> ELSE <<>>
             many == IF n > params.maxColors THEN <<"maximum allowed">> ELSE <<>>
         IN RuleResult(few \o many = <<>>, few \o many, <<>>, 0)

\* validateColorFormat
ValidateColorFormat(swatch, params) ==
    IF swatch.shape = "null" THEN Thrown
    ELSE IF swatch.shape = "noColors"
    THEN RuleResult(FALSE, <<"Swatch colors must be an array">>, <<>>, 0)
    ELSE LET n == Len(swatch.colors)
             invalid == { i \in 1..n : ParseColor(swatch.colors[i]).threw }
         IN RuleResult(invalid = {}, Messages(invalid, "Invalid color at position", n), <<>>, 0)

\* rule.validate(swatch, params): a built-in rule is named by the id that
\* initializeDefaultRules gives it, the rule of addCustomRule throws
Validate(rule, swatch, params) ==
    CASE rule = "wcag_compliance" -> ValidateWCAGCompliance(swatch, params)
      [] rule = "no_duplicates"   -> ValidateNoDuplicates(swatch, params)
      [] rule = "min_contrast"    -> ValidateMinContrast(swatch, params)
      [] rule = "color_count"     -> ValidateColorCount(swatch, params)
      [] rule = "color_format"    -> ValidateColorFormat(swatch, params)
      [] OTHER                    -> Thrown

\* the registry after initializeDefaultRules
DefaultRegistry == [id \in BuiltInRules |-> id]

\* Map.set(id, rule)
MapSet(map, id, rule) ==
    [k \in DOMAIN map \cup {id} |-> IF k = id THEN rule ELSE map[k]]

\* Map.delete(id)
MapDelete(map, id) == [k \in DOMAIN map \ {id} |-> map[k]]

\* overallRating: null, or a number
NullRating == [kind |-> "null", value |-> 0]
Rating(n) == [kind |-> "number", value |-> n]

\* the validationResult that validateSwatch starts from
NewReport ==
    [kind |-> "report", valid |-> TRUE, results |-> <<>>, errors |-> <<>>,
     warnings |-> <<>>, overallRating |-> NullRating]

\* the report when an exception leaves validateSwatch
Throws == [kind |-> "throws"]

\* the body of rules.forEach for one rule id, with a try block that does not
\* catch
RunRule_NoCatch(report, ruleId, swatch, params, rules) ==
    IF ruleId \notin DOMAIN rules
    THEN [report EXCEPT !.warnings = Append(@, "Unknown validation rule")]
    ELSE LET ruleResult == Validate(rules[ruleId], swatch, params)
         IN IF ruleResult.threw THEN Throws
            ELSE [report EXCEPT
                    !.results = Append(@, [rule |-> ruleId, valid |-> ruleResult.valid,
                                           lowestContrast |-> ruleResult.lowestContrast]),
                    !.valid = @ /\ ruleResult.valid,
                    !.errors = @ \o ruleResult.errors,
                    !.warnings = @ \o ruleResult.warnings]

\* the body of rules.forEach for one rule id, where an unknown rule id makes
\* the report invalid
RunRule_UnknownFails(report, ruleId, swatch, params, rules) ==
    IF ruleId \notin DOMAIN rules
    THEN [report EXCEPT !.valid = FALSE, !.warnings = Append(@, "Unknown validation rule")]
    ELSE LET ruleResult == Validate(rules[ruleId], swatch, params)
         IN IF ruleResult.threw
            THEN [report EXCEPT !.valid = FALSE, !.errors = Append(@, "Rule failed")]
            ELSE [report EXCEPT
                    !.results = Append(@, [rule |-> ruleId, valid |-> ruleResult.valid,
                                           lowestContrast |-> ruleResult.lowestContrast]),
                    !.valid = @ /\ ruleResult.valid,
                    !.errors = @ \o ruleResult.errors,
                    !.warnings = @ \o ruleResult.warnings]

\* the body of rules.forEach for one rule id
RunRule(report, ruleId, swatch, params, rules) ==
    IF ruleId \notin DOMAIN rules
    THEN [report EXCEPT !.warnings = Append(@, "Unknown validation rule")]
    ELSE LET ruleResult == Validate(rules[ruleId], swatch, params)
         IN IF ruleResult.threw
            THEN [report EXCEPT !.valid = FALSE, !.errors = Append(@, "Rule failed")]
            ELSE [report EXCEPT
                    !.results = Append(@, [rule |-> ruleId, valid |-> ruleResult.valid,
                                           lowestContrast |-> ruleResult.lowestContrast]),
                    !.valid = @ /\ ruleResult.valid,
                    !.errors = @ \o ruleResult.errors,
                    !.warnings = @ \o ruleResult.warnings]

\* rules.forEach(ruleId => ...): an exception that leaves the callback ends
\* the loop and the call
RECURSIVE RunRules(_, _, _, _, _)
RunRules(report, ruleIds, swatch, params, rules) ==
    IF ruleIds = <<>> \/ report.kind = "throws" THEN report
    ELSE RunRules(RunRule(report, Head(ruleIds), swatch, params, rules),
                  Tail(ruleIds), swatch, params, rules)

\* calculateOverallRating that keeps the rating of an invalid report
CalculateOverallRating_KeepsRating(report) ==
    LET wcag == { i \in 1..Len(report.results) : report.results[i].rule = "wcag_compliance" }
    IN IF wcag # {} /\ report.results[Lowest(wcag, 0)].lowestContrast # 0
       THEN [report EXCEPT !.overallRating = Rating(report.results[Lowest(wcag, 0)].lowestContrast)]
       ELSE [report EXCEPT !.overallRating = NullRating]

\* calculateOverallRating: results.find yields the first wcag_compliance result
CalculateOverallRating(report) ==
    IF ~report.valid THEN [report EXCEPT !.overallRating = Rating(0)]
    ELSE LET wcag == { i \in 1..Len(report.results) : report.results[i].rule = "wcag_compliance" }
         IN IF wcag # {} /\ report.results[Lowest(wcag, 0)].lowestContrast # 0
            THEN [report EXCEPT !.overallRating =
                                   Rating(report.results[Lowest(wcag, 0)].lowestContrast)]
            ELSE [report EXCEPT !.overallRating = NullRating]

\* validateSwatch(swatch, options) with the registry `rules`
ValidateSwatchResult(swatch, options, rules) ==
    LET report == RunRules(NewReport, options.rules, swatch, options, rules)
    IN IF report.kind = "throws" THEN report ELSE CalculateOverallRating(report)

\* the engine as constructed
VEInit ==
    /\ validationRules = DefaultRegistry
    /\ veCall = [swatch |-> [shape |-> "null", colors |-> <<>>],
                 options |-> CHOOSE o \in OptionValues : o.rules = <<>>]
    /\ veReport = [kind |-> "none"]

\* validateSwatch(swatch, options) on the arguments under test
ValidateSwatch ==
    /\ veReport' = ValidateSwatchResult(veCall.swatch, veCall.options, validationRules)
    /\ UNCHANGED <<validationRules, veCall>>
    /\ UNCHANGED otherThanVE

\* addCustomRule(id, {name, validate}) with a validate that throws
AddCustomRule(id) ==
    /\ validationRules' = MapSet(validationRules, id, CustomRule)
    /\ veReport' = [kind |-> "none"]
    /\ UNCHANGED veCall
    /\ UNCHANGED otherThanVE

\* the rule ids given to removeRule
RemovableRules == {"custom", "wcag_compliance"}

\* removeRule(id)
RemoveRule(id) ==
    /\ id \in DOMAIN validationRules
    /\ validationRules' = MapDelete(validationRules, id)
    /\ veReport' = [kind |-> "none"]
    /\ UNCHANGED veCall
    /\ UNCHANGED otherThanVE

VENext ==
    \/ ValidateSwatch
    \/ \E id \in CustomRuleIds : AddCustomRule(id)
    \/ \E id \in RemovableRules : RemoveRule(id)

(***************************************************************************)
(* ColorParser.parseColor and getAllHexValues as calls on one parser.      *)
(***************************************************************************)

\* the strings given to parseColor: black and white in every hex spelling,
\* every name of the colour table, and a string that is no colour
ParseInputs ==
    { HexString(form, n) : form \in HexForms, n \in {0, 16777215} }
    \cup { NameString(ColorTable[k].name) : k \in 1..Len(ColorTable) }
    \cup { NoColorString }

CPInit == parseLog = <<>>

\* a call of parseColor(color)
ParseColorCall(color) ==
    /\ Len(parseLog) < MaxParses
    /\ parseLog' = Append(parseLog, [op |-> "parseColor", input |-> color,
                                     threw |-> ParseColor(color).threw,
                                     hex |-> <<ParseColor(color).hex>>])
    /\ UNCHANGED otherThanCP

\* a call of getAllHexValues()
GetAllHexValues ==
    /\ Len(parseLog) < MaxParses
    /\ parseLog' = Append(parseLog, [op |-> "getAllHexValues", input |-> NoColorString,
                                     threw |-> FALSE, hex |-> PrimaryHexValues])
    /\ UNCHANGED otherThanCP

CPNext ==
    \/ \E color \in ParseInputs : ParseColorCall(color)
    \/ GetAllHexValues

(***************************************************************************)
(* DeviceDetector (src/unnamed/part_008).  A string is the sequence of its *)
(* characters, all of them ASCII.  navigator and screen are the device; a  *)
(* property the browser does not have (hardwareConcurrency, deviceMemory)  *)
(* is 0.                                                                   *)
(***************************************************************************)

\* the ASCII characters from ' ' (32) to '~' (126); the grave accent (96) is
\* written out
AsciiChars ==
    << " ", "!", "\"", "#", "$", "%", "&", "'", "(", ")", "*", "+", ",",
       "-", ".", "/", "0", "1", "2", "3", "4", "5", "6", "7", "8", "9",
       ":", ";", "<", "=", ">", "?", "@", "A", "B", "C", "D", "E", "F",
       "G", "H", "I", "J", "K", "L", "M", "N", "O", "P", "Q", "R", "S",
       "T", "U", "V", "W", "X", "Y", "Z", "[", "\\", "]", "^", "_", "grave",
       "a", "b", "c", "d", "e", "f", "g", "h", "i", "j", "k", "l", "m",
       "n", "o", "p", "q", "r", "s", "t", "u", "v", "w", "x", "y", "z",
       "{", "|", "}", "~" >>

\* charCodeAt
CharCode(c) == 31 + CHOOSE i \in 1..Len(AsciiChars) : AsciiChars[i] = c

\* the alphabet of btoa
Base64Alphabet ==
    << "A", "B", "C", "D", "E", "F", "G", "H", "I", "J", "K", "L", "M",
       "N", "O", "P", "Q", "R", "S", "T", "U", "V", "W", "X", "Y", "Z",
       "a", "b", "c", "d", "e", "f", "g", "h", "i", "j", "k", "l", "m",
       "n", "o", "p", "q", "r", "s", "t", "u", "v", "w", "x", "y", "z",
       "0", "1", "2", "3", "4", "5", "6", "7", "8", "9", "+", "/" >>

\* btoa: three bytes give four characters; a last group of one or two bytes
\* is filled with '='
Btoa(text) ==
    LET n == Len(text)
        Byte(i) == IF i <= n THEN CharCode(text[i]) ELSE 0
        Group(g) == Byte(3 * g + 1) * 65536 + Byte(3 * g + 2) * 256 + Byte(3 * g + 3)
        Shift(k) == IF k = 0 THEN 262144 ELSE IF k = 1 THEN 4096 ELSE IF k = 2 THEN 64 ELSE 1
        Sextet(j) == (Group((j - 1) \div 4) \div Shift((j - 1) % 4)) % 64
        filled == (8 * n + 5) \div 6
    IN [j \in 1..(4 * ((n + 2) \div 3)) |->
          IF j > filled THEN "=" ELSE Base64Alphabet[Sextet(j) + 1]]

\* [a-zA-Z0-9]
IsAlphanumeric(c) == \E i \in 1..62 : Base64Alphabet[i] = c

\* String.prototype.includes
Includes(text, word) ==
    \E i \in 1..(Len(text) - Len(word) + 1) : SubSeq(text, i, i + Len(word) - 1) = word

\* the decimal digits of a number
RECURSIVE Digits(_)
Digits(n) ==
    IF n < 10 THEN <<AsciiChars[n + 17]>>
    ELSE Digits(n \div 10) \o <<AsciiChars[(n % 10) + 17]>>

\* the device every other device is compared with
BaseDevice ==
    [userAgent |-> <<"X", "1", "1">>, width |-> 800, height |-> 600,
     timezone |-> <<"U", "T", "C">>, language |-> <<"e", "n">>,
     hardwareConcurrency |-> 4, deviceMemory |-> 8]

\* the base device and the devices that differ from it in one property: the
\* user agent and with it the platform, the user agent alone, the screen
\* size, the time zone, the language, the core count, the memory
FingerprintDevices ==
    { BaseDevice,
      [BaseDevice EXCEPT !.userAgent = <<"W", "i", "n", "d", "o", "w", "s">>],
      [BaseDevice EXCEPT !.userAgent = <<"L", "i", "n", "u", "x">>],
      [BaseDevice EXCEPT !.height = 768],
      [BaseDevice EXCEPT !.timezone = <<"G", "M", "T">>],
      [BaseDevice EXCEPT !.language = <<"f", "r">>],
      [BaseDevice EXCEPT !.hardwareConcurrency = 8],
      [BaseDevice EXCEPT !.deviceMemory = 0] }

\* the memory sizes navigator.deviceMemory reports, in GB (the sizes below
\* 1 GB are left out), and 0 where the property is missing
MemorySizes == {0, 1, 2, 4, 8}

\* the devices whose thread count is asked for: a desktop and a phone with
\* every core count and memory size
ThreadDevices ==
    { [BaseDevice EXCEPT !.userAgent = ua, !.hardwareConcurrency = cores,
                         !.deviceMemory = memory] :
        ua \in {<<"X", "1", "1">>, <<"A", "n", "d", "r", "o", "i", "d">>}, cores \in 0..MaxCores,
        memory \in MemorySizes }

\* this.platform and this.capabilities before detection
NoPlatform == [set |-> FALSE, type |-> <<>>, mobile |-> FALSE]

NoCapabilities == [set |-> FALSE, cores |-> 0, memory |-> 0]

\* DeviceDetector.isMobile: the names of the regular expression the user
\* agents of the model can hold
IsMobile(device) ==
    \E word \in {<<"A", "n", "d", "r", "o", "i", "d">>, <<"i", "P", "h", "o", "n", "e">>, <<"i", "P", "a", "d">>} :
        Includes(device.userAgent, word)

\* DeviceDetector.detectPlatform
DetectPlatform(device) ==
    LET has(word) == Includes(device.userAgent, word)
        type == IF has(<<"M", "a", "c", " ", "O", "S">>) \/ has(<<"m", "a", "c", "O", "S">>) \/ has(<<"i", "P", "h", "o", "n", "e">>)
                   \/ has(<<"i", "P", "a", "d">>)
                THEN <<"d", "a", "r", "w", "i", "n">>
                ELSE IF has(<<"W", "i", "n", "d", "o", "w", "s">>) THEN <<"w", "i", "n", "d", "o", "w", "s">>
                ELSE IF has(<<"A", "n", "d", "r", "o", "i", "d">>) THEN <<"a", "n", "d", "r", "o", "i", "d">>
                ELSE IF has(<<"L", "i", "n", "u", "x">>) \/ has(<<"X", "1", "1">>) THEN <<"l", "i", "n", "u", "x">>
                ELSE <<"u", "n", "k", "n", "o", "w", "n">>
    IN [set |-> TRUE, type |-> type, mobile |-> IsMobile(device)]

\* DeviceDetector.detectCapabilities: cores and memory
DetectCapabilities(device) ==
    [set |-> TRUE,
     cores |-> IF device.hardwareConcurrency = 0 THEN 4 ELSE device.hardwareConcurrency,
     memory |-> IF device.deviceMemory = 0 THEN 4 ELSE device.deviceMemory]

\* JSON.stringify of a property with a string value and with a number value;
\* a property that is undefined is left out
JsonString(key, value) == <<"\"">> \o key \o <<"\"", ":", "\"">> \o value \o <<"\"">>

JsonNumber(key, n) == <<"\"">> \o key \o <<"\"", ":">> \o Digits(n)

\* the properties joined by commas
RECURSIVE JoinProperties(_)
JoinProperties(properties) ==
    IF properties = <<>> THEN <<>>
    ELSE IF Len(properties) = 1 THEN properties[1]
    ELSE properties[1] \o <<",">> \o JoinProperties(Tail(properties))

\* JSON.stringify(data) for the data object of generateFingerprint
JsonStringify(platform, device) ==
    LET present == << platform.set, TRUE, TRUE, TRUE, TRUE,
                      device.hardwareConcurrency # 0, device.deviceMemory # 0 >>
        texts == << JsonString(<<"p", "l", "a", "t", "f", "o", "r", "m">>, platform.type),
                    JsonString(<<"u", "s", "e", "r", "A", "g", "e", "n", "t">>, device.userAgent),
                    JsonString(<<"s", "c", "r", "e", "e", "n">>,
                               Digits(device.width) \o <<"x">> \o Digits(device.height)),
                    JsonString(<<"t", "i", "m", "e", "z", "o", "n", "e">>, device.timezone),
                    JsonString(<<"l", "a", "n", "g", "u", "a", "g", "e">>, device.language),
                    JsonNumber(<<"c", "o", "r", "e", "s">>, device.hardwareConcurrency),
                    JsonNumber(<<"m", "e", "m", "o", "r", "y">>, device.deviceMemory) >>
        RECURSIVE Kept(_)
        Kept(i) == IF i > Len(texts) THEN <<>>
                   ELSE (IF present[i] THEN <<texts[i]>> ELSE <<>>) \o Kept(i + 1)
    IN <<"{">> \o JoinProperties(Kept(1)) \o <<"}">>

\* .substring(0, 16)
Truncate(text) == SubSeq(text, 1, Min(FingerprintLength, Len(text)))

\* DeviceDetector.generateFingerprint
GenerateFingerprintOf(platform, device) ==
    Truncate(SelectSeq(Btoa(JsonStringify(platform, device)), IsAlphanumeric))

\* a count that forgets the mobile limit
GetOptimalThreadCountOf_Desktop(platform, capabilities) ==
    LET cores == IF capabilities.set THEN capabilities.cores ELSE 4
        memory == IF capabilities.set THEN capabilities.memory ELSE 4
    IN IF memory >= 8 /\ cores >= 8 THEN Min(cores - 1, 8)
       ELSE IF memory >= 4 /\ cores >= 4 THEN Min(cores - 1, 4)
       ELSE Min(cores, 2)

\* DeviceDetector.getOptimalThreadCount
GetOptimalThreadCountOf(platform, capabilities) ==
    LET cores == IF capabilities.set THEN capabilities.cores ELSE 4
        memory == IF capabilities.set THEN capabilities.memory ELSE 4
        isMobile == platform.set /\ platform.mobile
    IN IF isMobile THEN Min(cores, 2)
       ELSE IF memory >= 8 /\ cores >= 8 THEN Min(cores - 1, 8)
       ELSE IF memory >= 4 /\ cores >= 4 THEN Min(cores - 1, 4)
       ELSE Min(cores, 2)

\* the detectors as constructed
NewDetector == [pc |-> "new", platform |-> NoPlatform, capabilities |-> NoCapabilities,
                initialized |-> FALSE]

\* what a call returned, with this.initialized at the call
NoResult == [called |-> FALSE, initialized |-> FALSE, value |-> <<>>, count |-> 0]

DDInit ==
    /\ devices = <<>>
    /\ detectors = <<>>
    /\ fingerprints = <<>>
    /\ threadCounts = <<>>

\* initialize() to its second await: this.platform = await this.detectPlatform()
InitializePlatform(i) ==
    /\ detectors[i].pc = "new"
    /\ detectors' = [detectors EXCEPT ![i].pc = "platform",
                                      ![i].platform = DetectPlatform(devices[i])]
    /\ UNCHANGED <<devices, fingerprints, threadCounts>>
    /\ UNCHANGED otherThanDD

\* the rest of initialize(): this.capabilities = await this.detectCapabilities()
InitializeCapabilities(i) ==
    /\ detectors[i].pc = "platform"
    /\ detectors' = [detectors EXCEPT ![i].pc = "done",
                                      ![i].capabilities = DetectCapabilities(devices[i]),
                                      ![i].initialized = TRUE]
    /\ UNCHANGED <<devices, fingerprints, threadCounts>>
    /\ UNCHANGED otherThanDD

\* a call of generateFingerprint()
GenerateFingerprint(i) ==
    /\ fingerprints' = [fingerprints EXCEPT ![i] =
          [called |-> TRUE, initialized |-> detectors[i].initialized, count |-> 0,
           value |-> GenerateFingerprintOf(detectors[i].platform, devices[i])]]
    /\ UNCHANGED <<devices, detectors, threadCounts>>
    /\ UNCHANGED otherThanDD

\* a call of getOptimalThreadCount()
GetOptimalThreadCount(i) ==
    /\ threadCounts' = [threadCounts EXCEPT ![i] =
          [called |-> TRUE, initialized |-> detectors[i].initialized, value |-> <<>>,
           count |-> GetOptimalThreadCountOf(detectors[i].platform,
                                             detectors[i].capabilities)]]
    /\ UNCHANGED <<devices, detectors, fingerprints>>
    /\ UNCHANGED otherThanDD

FingerprintNext ==
    \/ \E i \in DOMAIN devices : InitializePlatform(i)
    \/ \E i \in DOMAIN devices : InitializeCapabilities(i)
    \/ \E i \in DOMAIN devices : GenerateFingerprint(i)

ThreadCountNext ==
    \/ \E i \in DOMAIN devices : InitializePlatform(i)
    \/ \E i \in DOMAIN devices : InitializeCapabilities(i)
    \/ \E i \in DOMAIN devices : GetOptimalThreadCount(i)

(***************************************************************************)
(* SystemManager (src/src/core/system-manager.js).  A run is one call of   *)
(* _performInitialization; it is suspended at the await of each phase and  *)
(* a phase ends by returning or by throwing into the catch of the run.     *)
(* Event listeners do not throw into dispatchEvent.                        *)
(***************************************************************************)

\* an event that leaves out the errors
DispatchEvent_NoError(log, eventType, run, st) ==
    IF eventType = "system:error" THEN log
    ELSE Append(log, [type |-> eventType, run |-> run, status |-> st])

\* SystemManager.dispatchEvent: the event with the run that dispatched it (0
\* outside a run) and this.status at that moment
DispatchEvent(log, eventType, run, st) ==
    Append(log, [type |-> eventType, run |-> run, status |-> st])

\* this.deviceDetector = null, this.cacheManager = null
NoComponent == [run |-> 0, initialized |-> FALSE]

SMInit ==
    /\ status = "idle"
    /\ smInitialized = FALSE
    /\ initializationPromise = 0
    /\ runs = <<>>
    /\ deviceDetector = NoComponent
    /\ cacheManager = NoComponent
    /\ events = <<>>
    /\ restarts = 0
    /\ components = {}
    /\ returned = <<>>
    /\ smCalls = 0

\* mutant: initialize() without the check of this.initializationPromise
InitializeBody_NoPromiseCheck(promise, caller) ==
    IF smInitialized
    THEN /\ UNCHANGED <<status, runs, deviceDetector>>
         /\ initializationPromise' = promise
         /\ returned' = Append(returned, [caller |-> caller, value |-> "true", run |-> 0])
    ELSE /\ status' = "initializing"
         /\ runs' = Append(runs, [pc |-> "device", result |-> "pending"])
         /\ deviceDetector' = [run |-> Len(runs) + 1, initialized |-> FALSE]
         /\ initializationPromise' = Len(runs) + 1
         /\ returned' = Append(returned, [caller |-> caller, value |-> "promise",
                                          run |-> Len(runs) + 1])

\* the body of initialize(): true at once when initialized, the promise of
\* the run in progress or finished when there is one, a new run otherwise;
\* the run sets status 'initializing', creates the DeviceDetector and stops
\* at the await of its initialize().  What the caller is given is logged: the
\* value true, or the promise of a run
InitializeBody(promise, caller) ==
    IF smInitialized
    THEN /\ UNCHANGED <<status, runs, deviceDetector>>
         /\ initializationPromise' = promise
         /\ returned' = Append(returned, [caller |-> caller, value |-> "true", run |-> 0])
    ELSE IF promise # 0
    THEN /\ UNCHANGED <<status, runs, deviceDetector>>
         /\ initializationPromise' = promise
         /\ returned' = Append(returned, [caller |-> caller, value |-> "promise",
                                          run |-> promise])
    ELSE /\ status' = "initializing"
         /\ runs' = Append(runs, [pc |-> "device", result |-> "pending"])
         /\ deviceDetector' = [run |-> Len(runs) + 1, initialized |-> FALSE]
         /\ initializationPromise' = Len(runs) + 1
         /\ returned' = Append(returned, [caller |-> caller, value |-> "promise",
                                          run |-> Len(runs) + 1])

\* a call of initialize()
SMInitialize ==
    /\ smCalls < MaxSystemCalls
    /\ smCalls' = smCalls + 1
    /\ InitializeBody(initializationPromise, "initialize")
    /\ UNCHANGED <<smInitialized, cacheManager, events, restarts, components>>
    /\ UNCHANGED otherThanSM

\* the catch of _performInitialization
CatchError(r) ==
    /\ status' = "error"
    /\ events' = DispatchEvent(events, "system:error", r, "error")
    /\ runs' = [runs EXCEPT ![r].pc = "done", ![r].result = "false"]
    /\ UNCHANGED <<smInitialized, initializationPromise, restarts, components, returned,
                   smCalls>>

\* phase 1 returns and phase 2 starts: DeviceDetector.initialize() detected
\* the device, or fell back and left its detector uninitialized; the run
\* enters the detector in this.components, creates the CacheManager and stops
\* at the await of its initialize()
DeviceDetectionDone(r, detected) ==
    /\ runs[r].pc = "device"
    /\ runs' = [runs EXCEPT ![r].pc = "cache"]
    /\ deviceDetector' = IF deviceDetector.run = r
                         THEN [deviceDetector EXCEPT !.initialized = detected]
                         ELSE deviceDetector
    /\ cacheManager' = [run |-> r, initialized |-> FALSE]
    /\ components' = components \cup {"deviceDetector"}
    /\ UNCHANGED <<status, smInitialized, initializationPromise, events, restarts,
                   returned, smCalls>>
    /\ UNCHANGED otherThanSM

\* phase 2 returns and phase 3 runs: cacheManager.initialize(fingerprint)
\* resolved true; the thread manager of phase 3 is an object literal with
\* initialized: true; both are entered in this.components
CacheSystemDone(r) ==
    /\ runs[r].pc = "cache"
    /\ runs' = [runs EXCEPT ![r].pc = "threads"]
    /\ cacheManager' = IF cacheManager.run = r
                       THEN [cacheManager EXCEPT !.initialized = TRUE]
                       ELSE cacheManager
    /\ components' = components \cup {"cacheManager", "threadManager"}
    /\ UNCHANGED <<status, smInitialized, initializationPromise, deviceDetector, events,
                   restarts, returned, smCalls>>
    /\ UNCHANGED otherThanSM

\* phase 2 throws: cacheManager.initialize(fingerprint) resolved false
CacheSystemFails(r) ==
    /\ runs[r].pc = "cache"
    /\ CatchError(r)
    /\ UNCHANGED <<deviceDetector, cacheManager>>
    /\ UNCHANGED otherThanSM

\* phase 4: validateSystem throws unless this.deviceDetector and
\* this.cacheManager are initialized
ValidateSystem(r) ==
    /\ runs[r].pc = "threads"
    /\ IF deviceDetector.initialized /\ cacheManager.initialized
       THEN /\ runs' = [runs EXCEPT ![r].pc = "validated"]
            /\ UNCHANGED <<status, smInitialized, initializationPromise, events, restarts,
                           components, returned, smCalls>>
       ELSE CatchError(r)
    /\ UNCHANGED <<deviceDetector, cacheManager>>
    /\ UNCHANGED otherThanSM

\* the end of the try block
FinishInitialization(r) ==
    /\ runs[r].pc = "validated"
    /\ status' = "ready"
    /\ smInitialized' = TRUE
    /\ events' = DispatchEvent(events, "system:initialized", r, "ready")
    /\ runs' = [runs EXCEPT ![r].pc = "done", ![r].result = "true"]
    /\ UNCHANGED <<initializationPromise, deviceDetector, cacheManager, restarts,
                   components, returned, smCalls>>
    /\ UNCHANGED otherThanSM

\* the body of shutdown(): no component has a shutdown function, so nothing
\* is awaited; this.components is cleared
ShutdownBody ==
    /\ components' = {}
    /\ status' = "shutdown"
    /\ smInitialized' = FALSE
    /\ events' = DispatchEvent(events, "system:shutdown", 0, "shutdown")

\* a call of shutdown()
Shutdown ==
    /\ smCalls < MaxSystemCalls
    /\ smCalls' = smCalls + 1
    /\ ShutdownBody
    /\ UNCHANGED <<initializationPromise, runs, deviceDetector, cacheManager, restarts,
                   returned>>
    /\ UNCHANGED otherThanSM

\* a call of restart(), to `await this.shutdown()`
RestartBegin ==
    /\ smCalls < MaxSystemCalls
    /\ smCalls' = smCalls + 1
    /\ ShutdownBody
    /\ restarts' = restarts + 1
    /\ UNCHANGED <<initializationPromise, runs, deviceDetector, cacheManager, returned>>
    /\ UNCHANGED otherThanSM

\* restart() after the await: the promise is reset and initialize() is called
RestartResume ==
    /\ restarts > 0
    /\ restarts' = restarts - 1
    /\ InitializeBody(0, "restart")
    /\ UNCHANGED <<smInitialized, cacheManager, events, components, smCalls>>
    /\ UNCHANGED otherThanSM

SMNext ==
    \/ SMInitialize
    \/ \E r \in DOMAIN runs, detected \in BOOLEAN : DeviceDetectionDone(r, detected)
    \/ \E r \in DOMAIN runs : CacheSystemDone(r)
    \/ \E r \in DOMAIN runs : CacheSystemFails(r)
    \/ \E r \in DOMAIN runs : ValidateSystem(r)
    \/ \E r \in DOMAIN runs : FinishInitialization(r)
    \/ Shutdown
    \/ RestartBegin
    \/ RestartResume

(***************************************************************************)
(***************************************************************************)
(* The contrast code of the worker script, next to SwatchGenerator         *)
(* .validateSwatch and WCAGCalculator.getAllCompliance, as calls on colour *)
(* strings.  The worker keeps the ratio as a fraction: it does not round.  *)
(***************************************************************************)

\* worker hexToRgb: /^#?([a-f\d]{2})([a-f\d]{2})([a-f\d]{2})$/i matches six
\* hex digits in either case, and anything else gives null
WorkerHexToRgb(color) ==
    IF color.kind = "hex" /\ color.form \in {"#RRGGBB", "#rrggbb"}
    THEN [isNull |-> FALSE, r |-> color.hex \div 65536,
          g |-> (color.hex \div 256) % 256, b |-> color.hex % 256]
    ELSE [isNull |-> TRUE, r |-> 0, g |-> 0, b |-> 0]

\* worker getLuminance, times 1000000, to the nearest unit
GetLuminance(rgb) ==
    (2126 * GammaTable[rgb.r + 1] + 7152 * GammaTable[rgb.g + 1]
        + 722 * GammaTable[rgb.b + 1] + 500) \div 1000

\* worker calculateContrast: (lighter + 0.05) / (darker + 0.05) as it is,
\* numerator and denominator times 1000000; destructuring null throws
WorkerCalculateContrast(color1, color2) ==
    LET Ratio(rgb1, rgb2) ==
            IF rgb1.isNull \/ rgb2.isNull THEN [threw |-> TRUE, num |-> 0, den |-> 1]
            ELSE [threw |-> FALSE,
                  num |-> Max(GetLuminance(rgb1), GetLuminance(rgb2)) + 50000,
                  den |-> Min(GetLuminance(rgb1), GetLuminance(rgb2)) + 50000]
    IN Ratio(WorkerHexToRgb(color1), WorkerHexToRgb(color2))

\* worker validateSwatch(swatch, standard): the threshold is 7 for 'AAA' and
\* 4.5 for anything else; the loop over the cyclic pairs returns valid: false
\* at the first contrast below the threshold (contrast < threshold, compared
\* here as 100 * num < threshold * den with the threshold times 100);
\* contrasts is the number of ratios computed
WorkerValidateSwatch(swatch, standard) ==
    LET n == Len(swatch)
        threshold == IF standard = "AAA" THEN 700 ELSE 450
        Result(contrast) ==
            LET below == { i \in 1..n : ~contrast[i].threw /\
                             100 * contrast[i].num < threshold * contrast[i].den }
                stop == { i \in 1..n : contrast[i].threw } \cup below
                last == IF stop = {} THEN n
                        ELSE CHOOSE i \in stop : \A j \in stop : i <= j
            IN [threw |-> stop # {} /\ contrast[last].threw,
                valid |-> stop = {},
                contrasts |-> last]
    IN Result([i \in 1..n |-> WorkerCalculateContrast(swatch[i], swatch[(i % n) + 1])])

\* the forEach of getAllCompliance on a contrast ratio (times 100)
ComplianceAt(contrastRatio) ==
    [level \in WcagLevels |->
        [normal |-> contrastRatio >= Thresholds[level].normal,
         large  |-> contrastRatio >= Thresholds[level].large]]

\* WCAGCalculator.getHighestLevel
GetHighestLevel(compliance) ==
    IF compliance.AAA.normal THEN "AAA"
    ELSE IF compliance.AAA.large THEN "AAA-Large"
    ELSE IF compliance.AA.normal THEN "AA"
    ELSE IF compliance.AA.large THEN "AA-Large"
    ELSE "None"

\* WCAGCalculator.getAllCompliance(color1, color2); calculateContrast throws
\* on a colour that does not parse
GetAllCompliance(color1, color2) ==
    LET Results(c) ==
            IF c.threw THEN [threw |-> TRUE, contrastRatio |-> 0, highestLevel |-> "None"]
            ELSE [threw |-> FALSE, contrastRatio |-> c.contrastRatio,
                  highestLevel |-> GetHighestLevel(ComplianceAt(c.contrastRatio))]
    IN Results(ContrastOf(color1, color2))

\* SwatchGenerator.validateSwatch(colors, wcagLevel) on colour strings:
\* parseColor throws out of it
ValidateSwatchOf(colors, wcagLevel) ==
    IF \E i \in 1..Len(colors) : ParseColor(colors[i]).threw
    THEN [threw |-> TRUE, compliant |-> FALSE]
    ELSE [threw |-> FALSE,
          compliant |-> SGValidateSwatch([i \in 1..Len(colors) |-> ParseColor(colors[i]).hex],
                                         wcagLevel).compliant]

\* the colours of the calls: black, white (in both cases), #EF0000, #EA0000,
\* #595959, #767676 and #949494
ContrastColors ==
    { HexString("#RRGGBB", 0), HexString("#RRGGBB", 16777215),
      HexString("#rrggbb", 16777215), HexString("#RRGGBB", 15663104),
      HexString("#RRGGBB", 15335424), HexString("#RRGGBB", 5855577),
      HexString("#RRGGBB", 7763574), HexString("#RRGGBB", 9737364) }

\* the swatches of the calls
ContrastSwatches == SeqsUpTo(ContrastColors, MaxSwatchLen)

\* no call yet; the calls keep no state, and each behaviour makes one of them
NoContrastCall ==
    [op |-> "none", colors |-> <<>>, level |-> "AA", threw |-> FALSE,
     valid |-> FALSE, contrastRatio |-> 0, highestLevel |-> "None"]

WCInit == wcagCall = NoContrastCall

\* the worker's onmessage on a task {type: 'validateSwatch', data: {swatch,
\* standard}}: it posts the result, or the error of what threw
ValidateSwatchTask(swatch, standard) ==
    /\ wcagCall = NoContrastCall
    /\ LET r == WorkerValidateSwatch(swatch, standard)
       IN wcagCall' = [op |-> "workerValidateSwatch", colors |-> swatch,
                       level |-> standard, threw |-> r.threw, valid |-> r.valid,
                       contrastRatio |-> 0, highestLevel |-> "None"]
    /\ UNCHANGED otherThanWC

\* a call of SwatchGenerator.validateSwatch(colors, wcagLevel)
ValidateSwatchCall(colors, wcagLevel) ==
    /\ wcagCall = NoContrastCall
    /\ LET r == ValidateSwatchOf(colors, wcagLevel)
       IN wcagCall' = [op |-> "validateSwatch", colors |-> colors,
                       level |-> wcagLevel, threw |-> r.threw, valid |-> r.compliant,
                       contrastRatio |-> 0, highestLevel |-> "None"]
    /\ UNCHANGED otherThanWC

\* a call of WCAGCalculator.getAllCompliance(color1, color2)
GetAllComplianceCall(color1, color2) ==
    /\ wcagCall = NoContrastCall
    /\ LET r == GetAllCompliance(color1, color2)
       IN wcagCall' = [op |-> "getAllCompliance", colors |-> <<color1, color2>>,
                       level |-> "AA", threw |-> r.threw, valid |-> FALSE,
                       contrastRatio |-> r.contrastRatio,
                       highestLevel |-> r.highestLevel]
    /\ UNCHANGED otherThanWC

WCNext ==
    \/ \E swatch \in ContrastSwatches, standard \in WcagLevels :
          ValidateSwatchTask(swatch, standard)
    \/ \E colors \in ContrastSwatches, wcagLevel \in WcagLevels :
          ValidateSwatchCall(colors, wcagLevel)
    \/ \E color1 \in ContrastColors, color2 \in ContrastColors :
          GetAllComplianceCall(color1, color2)

(* Specifications: one component runs, the others stay as constructed.     *)
(***************************************************************************)

\* the ThreadManager, in an environment with or without Worker support
Init ==
    /\ TMInit
    /\ workerSupported \in BOOLEAN
    /\ SGInit
    /\ CMInit
    /\ VEInit
    /\ CPInit
    /\ DDInit
    /\ SMInit
    /\ WCInit

\* the SwatchGenerator
SearchInit ==
    /\ SGInit
    /\ TMInit
    /\ workerSupported = TRUE
    /\ CMInit
    /\ VEInit
    /\ CPInit
    /\ DDInit
    /\ SMInit
    /\ WCInit

SearchSpec == SearchInit /\ [][SGNext]_vars

\* the CacheManager
CacheInit ==
    /\ CMInit
    /\ TMInit
    /\ workerSupported = TRUE
    /\ SGInit
    /\ VEInit
    /\ CPInit
    /\ DDInit
    /\ SMInit
    /\ WCInit

CacheSpec == CacheInit /\ [][CMNext]_vars

\* the CacheManager of two devices or callers on one database
SharedNext ==
    \/ CMConstruct
    \/ \E fp \in Fingerprints : CMInitialize(fp)
    \/ \E key \in CacheKeys, data \in DataValues : StoreAsset(key, data)
    \/ \E key \in CacheKeys : RetrieveAsset(key)
    \/ \E key \in CacheKeys : RemoveAsset(key)
    \/ \E key \in CacheKeys : HasAsset(key)
    \/ ClearCache
    \/ Cleanup
    \/ Tick

SharedInit ==
    /\ CMInit
    /\ TMInit
    /\ workerSupported = TRUE
    /\ SGInit
    /\ VEInit
    /\ CPInit
    /\ DDInit
    /\ SMInit
    /\ WCInit

SharedCacheSpec == SharedInit /\ [][SharedNext]_vars

\* the CacheManager filled by one caller and cleaned up
EvictionNext ==
    \/ CMInitialize(DeviceFingerprint)
    \/ \E key \in EvictionKeys, data \in FillData : StoreAsset(key, data)
    \/ \E key \in EvictionKeys : RetrieveAsset(key)
    \/ Cleanup
    \/ Tick

EvictionInit ==
    /\ CMInit
    /\ TMInit
    /\ workerSupported = TRUE
    /\ SGInit
    /\ VEInit
    /\ CPInit
    /\ DDInit
    /\ SMInit
    /\ WCInit

EvictionSpec == EvictionInit /\ [][EvictionNext]_vars

\* storeAsset calls that interleave at their awaits
StoreInit ==
    /\ CMInit
    /\ TMInit
    /\ workerSupported = TRUE
    /\ SGInit
    /\ VEInit
    /\ CPInit
    /\ DDInit
    /\ SMInit
    /\ WCInit

StoreSpec == StoreInit /\ [][StoreNext]_vars

\* the ValidationEngine
ValidationInit ==
    /\ validationRules = DefaultRegistry
    /\ veCall \in [swatch : Swatches, options : OptionValues]
    /\ veReport = [kind |-> "none"]
    /\ TMInit
    /\ workerSupported = TRUE
    /\ SGInit
    /\ CMInit
    /\ CPInit
    /\ DDInit
    /\ SMInit
    /\ WCInit

ValidationSpec == ValidationInit /\ [][VENext]_vars

\* the ColorParser
ParserInit ==
    /\ CPInit
    /\ TMInit
    /\ workerSupported = TRUE
    /\ SGInit
    /\ CMInit
    /\ VEInit
    /\ DDInit
    /\ SMInit
    /\ WCInit

ParserSpec == ParserInit /\ [][CPNext]_vars

\* two DeviceDetectors, one on the base device and one on a device of the set
FingerprintInit ==
    /\ devices \in { <<BaseDevice, other>> : other \in FingerprintDevices }
    /\ detectors = [i \in 1..2 |-> NewDetector]
    /\ fingerprints = [i \in 1..2 |-> NoResult]
    /\ threadCounts = [i \in 1..2 |-> NoResult]
    /\ TMInit
    /\ workerSupported = TRUE
    /\ SGInit
    /\ CMInit
    /\ VEInit
    /\ CPInit
    /\ SMInit
    /\ WCInit

FingerprintSpec == FingerprintInit /\ [][FingerprintNext]_vars

\* one DeviceDetector on a desktop or a phone
ThreadCountInit ==
    /\ devices \in [1..1 -> ThreadDevices]
    /\ detectors = [i \in 1..1 |-> NewDetector]
    /\ fingerprints = [i \in 1..1 |-> NoResult]
    /\ threadCounts = [i \in 1..1 |-> NoResult]
    /\ TMInit
    /\ workerSupported = TRUE
    /\ SGInit
    /\ CMInit
    /\ VEInit
    /\ CPInit
    /\ SMInit
    /\ WCInit

ThreadCountSpec == ThreadCountInit /\ [][ThreadCountNext]_vars

\* the SystemManager
SystemInit ==
    /\ SMInit
    /\ TMInit
    /\ workerSupported = TRUE
    /\ SGInit
    /\ CMInit
    /\ VEInit
    /\ CPInit
    /\ DDInit
    /\ WCInit

SystemSpec == SystemInit /\ [][SMNext]_vars

\* the contrast calls of the worker script, the SwatchGenerator and the
\* WCAGCalculator
ContrastInit ==
    /\ WCInit
    /\ TMInit
    /\ workerSupported = TRUE
    /\ SGInit
    /\ CMInit
    /\ VEInit
    /\ CPInit
    /\ DDInit
    /\ SMInit

ContrastSpec == ContrastInit /\ [][WCNext]_vars

\* the ThreadManager under every call of its API
Spec == Init /\ [][TMNext]_vars

\* Scheduling: every worker thread runs the message it was sent, and the event
\* loop of the main thread runs every job and dispatches every message event.
TMFairness ==
    /\ WF_vars(InitializeResume)
    /\ \A w \in 1..(MaxCalls * ThreadCap) : WF_vars(WorkerRun(w))
    /\ \A w \in 1..(MaxCalls * ThreadCap) : WF_vars(HandleMessage(w))

\* the ThreadManager while terminate() is not called, under fair scheduling
LiveSpec == Init /\ [][TMNoTerminate]_vars /\ TMFairness

\* the ThreadManager under every call of its API, under fair scheduling
FairSpec == Init /\ [][TMNext]_vars /\ TMFairness

(***************************************************************************)
(* Claims about the ThreadManager                                          *)
(***************************************************************************)

TaskIds == 1..Len(task)

\* number of times task t was posted to a worker
Posts(t) == Cardinality({ k \in 1..Len(postLog) : postLog[k] = t })

Settled(t) == t \in TaskIds /\ task[t].promise # "pending" /\ task[t].settles = 1

NeverDispatched(t) == task[t].error \in {"notInitialized", "terminated"}

\* position of task t in the post history (0: not posted)
PostIndex(t) ==
    IF Posts(t) = 0 THEN 0 ELSE CHOOSE k \in 1..Len(postLog) : postLog[k] = t

\* C2: tasks are posted to workers in submission order: when task b was
\* posted, every task a submitted before b (and not rejected before dispatch)
\* was posted before it.
C2_FifoDispatch ==
    \A a, b \in TaskIds :
        (a < b /\ Posts(b) > 0 /\ ~NeverDispatched(a))
            => (Posts(a) > 0 /\ PostIndex(a) < PostIndex(b))

\* witness of C2: a single worker served three tasks, two of which had to wait
\* in the queue
C2_Witness == Len(workerPool) = 1 /\ Len(postLog) = 3

\* C3: terminate() rejects every task still in the queue with the 'terminated'
\* error, in the same step, and leaves the queue empty.
C3_TerminateRejectsQueued ==
    [][Terminate =>
         /\ taskQueue' = <<>>
         /\ \A k \in 1..Len(taskQueue) :
               /\ task'[taskQueue[k]].promise = "rejected"
               /\ task'[taskQueue[k]].error = "terminated"
               /\ task'[taskQueue[k]].settles = 1]_vars

\* witness of C3: a task was rejected in the queue by terminate()
C3_Witness ==
    /\ taskQueue = <<>>
    /\ \E t \in TaskIds : task[t].promise = "rejected" /\ task[t].error = "terminated"

\* C4 (as claimed): a task that was in flight when terminate() was called is
\* allowed to finish: its promise is eventually resolved or rejected.
C4_InFlightTasksFinish ==
    \A t \in 1..MaxCalls :
        [](t \in lost => <>(t \in TaskIds /\ task[t].promise # "pending"))

\* C5: handling a failed task rejects that task's promise only: no other
\* task changes, worker w is idle again unless the oldest queued task was
\* posted to it, and the pool keeps its size.
C5_FailureIsIsolated ==
    [][\A w \in 1..Len(workerPool) :
         (HandleMessage(w) /\ ~workerPool[w].success) =>
            LET t == workerPool[w].listener IN
            /\ task'[t].promise = "rejected" /\ task'[t].error = "task"
            /\ \A u \in TaskIds \ {t} : task'[u] = task[u]
            /\ Len(workerPool') = Len(workerPool)
            /\ \A v \in (1..Len(workerPool)) \ {w} : workerPool'[v] = workerPool[v]
            /\ IF taskQueue = <<>>
               THEN ~workerPool'[w].busy /\ postLog' = postLog
               ELSE /\ taskQueue' = Tail(taskQueue)
                    /\ postLog' = Append(postLog, Head(taskQueue))
                    /\ workerPool'[w].busy
                    /\ workerPool'[w].listener = Head(taskQueue)]_vars

\* witness of C5: a task failed in a worker and a task submitted after it
\* was dispatched and resolved
C5_Witness ==
    \E t, u \in TaskIds :
        /\ t < u
        /\ task[t].promise = "rejected" /\ task[t].error = "task"
        /\ task[u].promise = "resolved"
        /\ PostIndex(t) < PostIndex(u)

\* C6 (as claimed): once initialize() has returned true the pool holds
\* between 1 and 8 workers, and it keeps the size it had when initialize()
\* first returned.
C6_PoolSizeFixedInRange ==
    initialized =>
        /\ Len(workerPool) >= MinThreads
        /\ Len(workerPool) <= ThreadCap
        /\ Len(workerPool) = sizeAtInit

\* the workers whose handleMessage listener belongs to task t
HoldersOf(t) == { w \in 1..Len(workerPool) : workerPool[w].listener = t }

\* a task that was posted to a worker and whose promise is not settled
DispatchedUnanswered(t) == Posts(t) > 0 /\ task[t].promise = "pending"

\* C31 (as claimed): every worker is idle or busy with exactly one task,
\* every task that was dispatched and is not answered is held by exactly one
\* worker, and no task is both in the queue and dispatched.
C31_OneWorkerPerDispatchedTask ==
    /\ \A w \in 1..Len(workerPool) : workerPool[w].busy <=> workerPool[w].listener # 0
    /\ \A t \in TaskIds : DispatchedUnanswered(t) => Cardinality(HoldersOf(t)) = 1
    /\ \A k \in 1..Len(taskQueue) : Posts(taskQueue[k]) = 0

\* the entries of the pool whose busy flag is set
BusyWorkers == { w \in 1..Len(workerPool) : workerPool[w].busy }

\* C36 (as claimed): activeThreads is the number of busy workers of the pool
\* and lies between 0 and maxThreads.
C36_ActiveThreadsCountsBusyWorkers ==
    /\ activeThreads = Cardinality(BusyWorkers)
    /\ 0 <= activeThreads
    /\ activeThreads <= maxThreads

(***************************************************************************)
(* Claims about the SwatchGenerator                                        *)
(***************************************************************************)

\* the searches of the log that returned a results object
Searches ==
    { i \in 1..Len(searchLog) :
        /\ searchLog[i].op = "generatePermutations"
        /\ searchLog[i].results.outcome = "ok" }

\* b is a cyclic rotation of a
IsRotation(a, b) ==
    /\ Len(a) = Len(b)
    /\ \E k \in 1..Len(a) : b = SubSeq(a, k, Len(a)) \o SubSeq(a, 1, k - 1)

\* the colour sequences of the valid swatches of a search
ValidColors(i) ==
    { searchLog[i].results.validSwatches[k].colors :
        k \in 1..Len(searchLog[i].results.validSwatches) }

\* C7 (as claimed): the validSwatches of one search never hold two swatches
\* that are cyclic rotations of the same colour set.
C7_NoTwoRotationsReturned ==
    \A i \in Searches :
        LET valid == searchLog[i].results.validSwatches IN
        \A m, n \in 1..Len(valid) :
            m < n => ~IsRotation(valid[m].colors, valid[n].colors)

\* C8 (as claimed): a search repeated on the same generator with the same
\* colour count and level returns the same stats and the same set of valid
\* swatches as the first run.
C8_RepeatedSearchSameResult ==
    \A i, j \in Searches :
        (/\ i < j
         /\ searchLog[i].colorCount = searchLog[j].colorCount
         /\ searchLog[i].wcagLevel = searchLog[j].wcagLevel)
            => /\ searchLog[j].results.stats = searchLog[i].results.stats
               /\ ValidColors(j) = ValidColors(i)

\* the calls of the log of one operation
CallsOf(op) == { i \in 1..Len(searchLog) : searchLog[i].op = op }

\* C22 (as claimed): a search accepts every arity from 2 to 7 and reports an
\* arity outside [2,7] as a range error, and so does a direct request for a
\* swatch with the number of its colours.
C22_AritiesTwoToSeven ==
    /\ \A i \in CallsOf("generatePermutations") :
          searchLog[i].results.outcome = "rangeError"
              <=> searchLog[i].colorCount \notin 2..7
    /\ \A i \in CallsOf("generateSpecificSwatch") :
          searchLog[i].results.outcome = "rangeError"
              <=> Len(searchLog[i].colors) \notin 2..7

\* C22 (amended): a search accepts every arity from 2 to 5 and reports an
\* arity outside [2,5] as a range error, and so does a direct request for a
\* swatch with the number of its colours.
C22_AritiesTwoToFive ==
    /\ \A i \in CallsOf("generatePermutations") :
          searchLog[i].results.outcome = "rangeError"
              <=> searchLog[i].colorCount \notin 2..5
    /\ \A i \in CallsOf("generateSpecificSwatch") :
          searchLog[i].results.outcome = "rangeError"
              <=> Len(searchLog[i].colors) \notin 2..5

\* a search of arity 5 was accepted and a direct request of 6 colours was
\* reported as a range error
C22_Witness ==
    /\ \E i \in CallsOf("generatePermutations") :
          searchLog[i].colorCount = 5 /\ searchLog[i].results.outcome = "ok"
    /\ \E i \in CallsOf("generateSpecificSwatch") :
          Len(searchLog[i].colors) = 6 /\ searchLog[i].results.outcome = "rangeError"

\* the search found nothing and threw nothing
EmptyResult(i) ==
    /\ searchLog[i].results.outcome = "ok"
    /\ searchLog[i].results.totalCombinations = 0
    /\ searchLog[i].results.validSwatches = <<>>
    /\ searchLog[i].results.stats =
          [generated |-> 0, validated |-> 0, compliant |-> 0, duplicatesSkipped |-> 0]

TextSizes == {"normal", "large"}

\* the rotations a search of the arity examines
RotationsOf(colorCount) ==
    LET combinations == GenerateCombinations(AllHexValues, colorCount)
    IN UNION { { GenerateRotations(combinations[c])[r] : r \in 1..colorCount } :
                 c \in 1..Len(combinations) }

\* every cyclic-adjacent pair of the colours has at least the ratio
PairsMeet(colors, ratio) ==
    \A p \in 1..Len(colors) :
        CalculateContrast(colors[p], colors[(p % Len(colors)) + 1]) >= ratio

\* C24 (as claimed): in a search (the first on its generator), a rotation is
\* marked compliant, and so returned as a valid swatch, if and only if every
\* cyclic-adjacent pair of its colours meets the ratio required for the
\* requested level and the requested text size, normal or large.
C24_CompliantIffPairsMeetRequested ==
    \A textSize \in TextSizes :
        1 \in Searches =>
            \A colors \in RotationsOf(searchLog[1].colorCount) :
                colors \in ValidColors(1)
                    <=> PairsMeet(colors, Thresholds[searchLog[1].wcagLevel][textSize])

\* C35 (as claimed): in every search of a sequence of searches on one
\* generator, every enumerated combination whose cyclic-adjacent pairs all
\* meet the ratio of the level requested in that search is among the valid
\* swatches of that search.
C35_NoCompliantCombinationSkipped ==
    \A i \in Searches :
        LET combinations == GenerateCombinations(AllHexValues, searchLog[i].colorCount)
        IN \A c \in 1..Len(combinations) :
              PairsMeet(combinations[c], Thresholds[searchLog[i].wcagLevel]["normal"])
                  => combinations[c] \in ValidColors(i)

\* two entries of the colour strings parse to the same colour
CanonicalDuplicate(colors) ==
    \E a, b \in 1..Len(colors) :
        /\ a < b
        /\ ~ParseColor(colors[a]).threw
        /\ ~ParseColor(colors[b]).threw
        /\ ParseColor(colors[a]).hex = ParseColor(colors[b]).hex

\* C25 (as claimed): every swatch stored by generateSpecificSwatch has
\* pairwise distinct colours, and a request of an accepted length in which
\* two entries canonicalise to the same colour (they differ in case, in 3-
\* or 6-digit form, or as name and hex) is rejected as a duplicate.
C25_StoredColoursAreDistinct ==
    /\ \A k \in 1..Len(generatedSwatches) :
          \A a, b \in 1..Len(generatedSwatches[k].colors) :
              a < b => generatedSwatches[k].colors[a] # generatedSwatches[k].colors[b]
    /\ \A i \in CallsOf("generateSpecificSwatch") :
          (Len(searchLog[i].colors) \in MinColorCount..MaxColorCount
           /\ CanonicalDuplicate(searchLog[i].colors))
              => searchLog[i].results.outcome = "duplicateError"

(***************************************************************************)
(* Claims about the CacheManager.                                          *)
(***************************************************************************)

\* the step is a call of operation op for the key
Called(op, key) ==
    /\ cacheOps' = cacheOps + 1
    /\ cmResult'.op = op
    /\ cmResult'.key = key

\* the entry of the key is resident in the initialized cache
Resident(key) ==
    /\ cmInitialized
    /\ GenerateCacheKey(fingerprint, key) \in DOMAIN assets

\* the resident entry of the key
EntryOf(key) == assets[GenerateCacheKey(fingerprint, key)]

\* now - timestamp > maxAge for the key's resident entry
PastMaxAge(key) == now - EntryOf(key).timestamp > MaxAgeDays * OneDay

\* C9: once storeAsset(key, data) has returned true, a retrieveAsset(key) that
\* finds the entry before it expires returns data equal to the data that was
\* stored, whether or not the entry was compressed on write and whatever size
\* the compression gave.
C9_RoundTripReturnsStoredData ==
    [][\A key \in CacheKeys :
         (Called("retrieveAsset", key) /\ Resident(key) /\ ~PastMaxAge(key)
            /\ lastStored[GenerateCacheKey(fingerprint, key)].kind # "none")
         => /\ cmResult'.value = "entry"
            /\ cmResult'.data = lastStored[GenerateCacheKey(fingerprint, key)]]_vars

\* the step is a call of one of the operations that work on the assets
AssetCall ==
    /\ cacheOps' = cacheOps + 1
    /\ cmInitialized
    /\ cmResult'.op \in {"storeAsset", "retrieveAsset", "hasAsset", "removeAsset",
                         "clearCache", "cleanup"}

\* C11: no operation of a cache initialized with one fingerprint changes or
\* deletes an entry stored under another fingerprint in the same database, and
\* what retrieveAsset returns comes from an entry of its own fingerprint.
C11_ScopesAreIsolated ==
    [][AssetCall =>
         /\ \A id \in DOMAIN assets \ ScopeIds(fingerprint) :
               id \in DOMAIN assets' /\ assets'[id] = assets[id]
         /\ (cmResult'.op = "retrieveAsset" /\ cmResult'.value = "entry")
               => GenerateCacheKey(fingerprint, cmResult'.key) \in ScopeIds(fingerprint)]_vars

\* the total size of the entries resident in a store
RECURSIVE SizeOfIds(_, _)
SizeOfIds(store, ids) ==
    IF ids = {} THEN 0
    ELSE LET id == CHOOSE x \in ids : TRUE
         IN store[id].size + SizeOfIds(store, ids \ {id})

ResidentSize(store) == SizeOfIds(store, DOMAIN store)

\* the step is a call of cleanup() on the initialized cache
CleanupCall ==
    /\ cacheOps' = cacheOps + 1
    /\ cmInitialized
    /\ cmResult'.op = "cleanup"

\* C12: once entries whose sizes total more than maxSize have been stored, the
\* entries resident when a cleanup() completes total at most 70% of maxSize.
C12_CleanupReachesTarget ==
    [][(CleanupCall /\ storedBytes > MaxSizeKB * 1024)
         => ResidentSize(assets') * 10 <= MaxSizeKB * 1024 * 7]_vars

\* the cleanup score of entry a is lower than that of entry b, both numbers
\* or Infinity
ScoreLower(a, b, t) ==
    LET sa == CalculateCleanupScore(a, t)
        sb == CalculateCleanupScore(b, t)
    IN /\ sa.kind # "nan" /\ sb.kind # "nan"
       /\ \/ sa.kind = "num" /\ sb.kind = "inf"
          \/ sa.kind = "num" /\ sb.kind = "num" /\ sa.num * sb.den < sb.num * sa.den

\* the step runs a cleanup: cleanup() itself or the urgent one of storeAsset
CleanupRuns ==
    /\ cacheOps' = cacheOps + 1
    /\ cmInitialized
    /\ cmResult'.op \in {"cleanup", "storeAsset"}

\* C13: a cleanup evicts non-expired entries in ascending order of cleanup
\* score: no non-expired entry is evicted while a non-expired entry with a
\* lower score stays resident.
C13_EvictsLowestScoreFirst ==
    [][CleanupRuns =>
         \A x \in DOMAIN assets \ DOMAIN assets' :
           \A y \in DOMAIN assets \cap DOMAIN assets' :
              (/\ ~IsExpired(assets[x], now) /\ ~IsExpired(assets[y], now)
               /\ assets'[y] = assets[y])
              => ~ScoreLower(assets[y], assets[x], now)]_vars

\* the step in which the call for the key writes its entry to the store
WritesEntry(key) ==
    /\ storeCalls[key].pc = "put"
    /\ storeCalls'[key].pc = "saveStore"

\* C14: a storeAsset call whose stored size exceeds 10% of maxSize writes its
\* entry only after its urgent cleanup has run to completion, and a call whose
\* stored size is at or below 10% of maxSize writes it without any cleanup.
C14_UrgentCleanupBeforeWrite ==
    [][\A key \in CacheKeys :
         WritesEntry(key) =>
           IF storeCalls[key].size * 10 > MaxSizeKB * 1024
           THEN storeCalls[key].cleanup = "done"
           ELSE storeCalls[key].cleanup = "none"]_vars

\* an entry above 10% of maxSize has been written after an urgent cleanup that
\* deleted entries
C14_Witness ==
    \E key \in CacheKeys :
       /\ storeCalls[key].pc = "saveStore"
       /\ storeCalls[key].size * 10 > MaxSizeKB * 1024
       /\ storeCalls[key].cleanup = "done"
       /\ storeTotals.deletedCount > 0
       /\ GenerateCacheKey(fingerprint, key) \in DOMAIN assets

\* C15: when storeAsset calls for different keys have interleaved at their
\* awaits and all have returned, the counters account for every store and
\* every deletion once: itemCount is the number of entries stored less the
\* number deleted, totalSize the bytes stored less the bytes deleted.
C15_CountersAccountForStores ==
    InFlight = {} =>
       /\ cacheStats.itemCount = storeTotals.storedCount - storeTotals.deletedCount
       /\ cacheStats.totalSize = storeTotals.storedBytes - storeTotals.deletedBytes

\* C32 (as claimed): metadata.compressed of every stored entry is true exactly
\* when the payload stored is the compressed form of the data given to
\* storeAsset.
C32_CompressedFlagTellsPayload ==
    \A id \in DOMAIN assets : assets[id].metadata.compressed <=> assets[id].data.kind = "gzip"

\* C33 (as claimed): after any sequence of calls on the cache, itemCount is
\* the number of entries resident in the store and totalSize is the sum of
\* their sizes.
C33_CountersMatchStore ==
    cmInitialized =>
        /\ cacheStats.itemCount = Cardinality(DOMAIN assets)
        /\ cacheStats.totalSize = SizeOfIds(assets, DOMAIN assets)

\* the sizes of the entries of a sequence, summed
RECURSIVE SizeOfSeq(_)
SizeOfSeq(seq) == IF seq = <<>> THEN 0 ELSE Head(seq).size + SizeOfSeq(Tail(seq))

\* the entries the eviction loop of a cleanup has deleted when `remaining` is
\* what it has left of the entries it started from
EvictedBy(rec, remaining) ==
    SubSeq(Reverse(NotExpired(rec.sorted, now)), 1,
           Len(NotExpired(rec.sorted, now)) - Len(remaining))

\* C34 (as claimed): when a cleanup that was suspended in its eviction loop
\* finishes, the counters are what they were just before, with every change
\* other calls made while it was suspended, less the entries it evicted.
C34_CleanupKeepsConcurrentUpdates ==
    [][\A key \in CacheKeys :
         (storeCalls[key].pc = "evict" /\ storeCalls'[key].pc = "saveCleanup") =>
            LET evicted == EvictedBy(storeCalls[key], storeCalls'[key].remaining)
            IN /\ cacheStats'.itemCount = cacheStats.itemCount - Len(evicted)
               /\ cacheStats'.totalSize = cacheStats.totalSize - SizeOfSeq(evicted)]_vars

\* a step that is one mutating operation of the initialized cache
MutatingCall ==
    /\ cacheOps' = cacheOps + 1
    /\ cmInitialized
    /\ cmResult'.op \in {"storeAsset", "retrieveAsset", "removeAsset", "clearCache",
                         "cleanup"}

\* C16: after every mutating operation of the cache (store, remove, clear,
\* cleanup, and a retrieve, which counts a hit or a miss) the stats record
\* persisted in the metadata store equals the counters in memory.
C16_PersistedStatsMatchMemory ==
    [][MutatingCall =>
         /\ metadataStats'.saved
         /\ metadataStats'.value = cacheStats']_vars

\* C10: an entry is expired exactly when now - timestamp > maxAge: for a
\* resident entry retrieveAsset returns null exactly then and hasAsset returns
\* true exactly otherwise, whatever accesses came before; the retrieveAsset
\* that finds an expired entry deletes it, and no expired entry survives a
\* cleanup.
C10_ExpiredExactlyPastMaxAge ==
    [][/\ \A key \in CacheKeys :
            /\ (Called("retrieveAsset", key) /\ Resident(key))
                 => /\ (cmResult'.value = "null") <=> PastMaxAge(key)
                    /\ PastMaxAge(key)
                         => GenerateCacheKey(fingerprint, key) \notin DOMAIN assets'
            /\ (Called("hasAsset", key) /\ Resident(key))
                 => /\ (cmResult'.value = "true") <=> ~PastMaxAge(key)
                    /\ PastMaxAge(key) => cmResult'.value = "false"
       /\ (cacheOps' = cacheOps + 1 /\ cmResult'.op = "cleanup" /\ cmInitialized)
            => \A id \in DOMAIN assets' :
                 ~(now' - assets'[id].timestamp > MaxAgeDays * OneDay)]_vars

\* hasAsset has answered false for an entry that was read before and is now
\* past maxAge
C10_Witness ==
    /\ cmResult.op = "hasAsset"
    /\ cmResult.value = "false"
    /\ Resident(cmResult.key)
    /\ EntryOf(cmResult.key).accessCount > 0
    /\ PastMaxAge(cmResult.key)

(***************************************************************************)
(* Claims about the ValidationEngine, checked under ValidationSpec.        *)
(***************************************************************************)

\* validateSwatch has returned or thrown
Reported == veReport.kind # "none"

\* the positions of options.rules that name a registered rule
NamedRules ==
    { j \in 1..Len(veCall.options.rules) : veCall.options.rules[j] \in DOMAIN validationRules }

\* what the rule at a position of options.rules does on the swatch
OutcomeOf(j) ==
    Validate(validationRules[veCall.options.rules[j]], veCall.swatch, veCall.options)

\* the positions of the wcag_compliance results in the report
WcagResults ==
    { i \in 1..Len(veReport.results) : veReport.results[i].rule = "wcag_compliance" }

\* the result of the wcag_compliance rule in the report
WcagResult == veReport.results[Lowest(WcagResults, 0)]

\* the colours of the swatch under test
Colors == veCall.swatch.colors

\* every colour of the swatch can be parsed
AllParse == \A i \in 1..Len(Colors) : ~ParseColor(Colors[i]).threw

\* the contrast ratio (times 100) of the colour at i and its cyclic neighbour
AdjacentContrast(i) ==
    CalculateContrast(ParseColor(Colors[i]).hex,
                      ParseColor(Colors[(i % Len(Colors)) + 1]).hex)

\* the pair at i can be computed and is below the threshold of the options
PairBelow(i) ==
    /\ ~ParseColor(Colors[i]).threw
    /\ ~ParseColor(Colors[(i % Len(Colors)) + 1]).threw
    /\ AdjacentContrast(i) < Thresholds[veCall.options.wcagLevel][veCall.options.textSize]

\* C17: the report is valid exactly when every registered rule named in
\* options.rules returned a valid result; a rule id that is not registered
\* does not make the report invalid.
C17_ValidIffEveryNamedRuleValid ==
    (Reported /\ veReport.kind = "report") =>
        (veReport.valid <=> \A j \in NamedRules : ~OutcomeOf(j).threw /\ OutcomeOf(j).valid)

\* a valid report of a call that names a rule that ran and a rule id that is
\* not registered, which left a warning
C17_Witness ==
    /\ Reported
    /\ veReport.valid
    /\ NamedRules # {}
    /\ \E j \in 1..Len(veCall.options.rules) : j \notin NamedRules
    /\ \E w \in 1..Len(veReport.warnings) : veReport.warnings[w] = "Unknown validation rule"

\* C18 as stated: overallRating is the lowest adjacent contrast that the
\* wcag_compliance rule found whenever that rule returned a result, whether
\* the report is valid or not, and null whenever the rule was not run.
C18_RatingIsLowestContrast ==
    (Reported /\ veReport.kind = "report") =>
        /\ (WcagResults # {} /\ WcagResult.lowestContrast # InfinityRating)
              => veReport.overallRating = Rating(WcagResult.lowestContrast)
        /\ (\A j \in NamedRules : veCall.options.rules[j] # "wcag_compliance")
              => veReport.overallRating = NullRating

\* C18 as amended: overallRating is 0 whenever the report is invalid; in a
\* valid report it is the lowest contrast of the cyclic-adjacent pairs when
\* wcag_compliance was run, and null when it was not.
C18_RatingOfValidReport ==
    (Reported /\ veReport.kind = "report") =>
        IF ~veReport.valid THEN veReport.overallRating = Rating(0)
        ELSE IF WcagResults # {}
        THEN /\ AllParse
             /\ \E i \in 1..Len(Colors) : veReport.overallRating = Rating(AdjacentContrast(i))
             /\ \A i \in 1..Len(Colors) : veReport.overallRating.value <= AdjacentContrast(i)
        ELSE veReport.overallRating = NullRating

\* a valid report of three colours whose rating is the contrast of a pair
\* other than the first
C18_Witness ==
    /\ Reported
    /\ veReport.valid
    /\ WcagResults # {}
    /\ Len(Colors) = 3
    /\ veReport.overallRating.kind = "number"
    /\ veReport.overallRating.value < AdjacentContrast(1)

\* C19 as stated: for each of the four level and text size combinations the
\* wcag_compliance rule reports valid = false if and only if at least one
\* cyclic-adjacent pair has a contrast ratio below the threshold.
C19_InvalidIffPairBelowThreshold ==
    (Reported /\ veReport.kind = "report" /\ WcagResults # {}
       /\ veCall.options.wcagLevel \in WcagLevels) =>
        (~WcagResult.valid <=> \E i \in 1..Len(Colors) : PairBelow(i))

\* C19 as amended: the rule reports valid = false if and only if the swatch
\* has no colors array or fewer than two colours, or a colour that cannot be
\* parsed, or a cyclic-adjacent pair with a contrast ratio below the threshold.
C19_InvalidIffShortUnparsedOrBelow ==
    (Reported /\ veReport.kind = "report" /\ WcagResults # {}
       /\ veCall.options.wcagLevel \in WcagLevels) =>
        (~WcagResult.valid <=>
            \/ veCall.swatch.shape # "colors"
            \/ Len(Colors) < 2
            \/ ~AllParse
            \/ \E i \in 1..Len(Colors) : PairBelow(i))

\* three parseable colours of which only the last and the first are below
\* the threshold, reported as not compliant
C19_Witness ==
    /\ Reported
    /\ WcagResults # {}
    /\ veCall.options.wcagLevel \in WcagLevels
    /\ Len(Colors) = 3
    /\ AllParse
    /\ PairBelow(3) /\ ~PairBelow(1) /\ ~PairBelow(2)
    /\ ~WcagResult.valid

\* the report holds a passing result of the no_duplicates rule
NoDuplicatesPasses ==
    \E i \in 1..Len(veReport.results) :
        veReport.results[i].rule = "no_duplicates" /\ veReport.results[i].valid

\* C26 (as claimed): for every swatch whose entries all parse, as hex strings
\* or as colour names, the no_duplicates rule passes exactly when no two
\* entries canonicalise to the same colour.
C26_NoDuplicatesPassesIffDistinct ==
    (/\ Reported /\ veReport.kind = "report"
     /\ veCall.swatch.shape = "colors"
     /\ AllParse
     /\ \E j \in NamedRules : veCall.options.rules[j] = "no_duplicates")
        => (NoDuplicatesPasses <=> ~CanonicalDuplicate(Colors))

(***************************************************************************)
(* Claims about the DeviceDetector                                         *)
(***************************************************************************)

\* C28 (as claimed): two devices that differ in platform, user agent, screen
\* size, time zone, language, core count or memory get different
\* fingerprints from generateFingerprint, called on each once its detector
\* is initialized.
C28_DevicesHaveDistinctFingerprints ==
    \A i, j \in DOMAIN devices :
        (/\ devices[i] # devices[j]
         /\ fingerprints[i].called /\ fingerprints[i].initialized
         /\ fingerprints[j].called /\ fingerprints[j].initialized)
            => fingerprints[i].value # fingerprints[j].value

\* the detectors that returned a thread count after their detection ran
CountedDetectors ==
    { i \in DOMAIN devices : threadCounts[i].called /\ threadCounts[i].initialized }

\* C29 (as claimed): the thread count getOptimalThreadCount derives from the
\* device is the detected core count minus 1, clamped to [1,8], for every
\* detected core count and memory size.
C29_CoresMinusOneClamped ==
    \A i \in CountedDetectors :
        threadCounts[i].count = Max(1, Min(detectors[i].capabilities.cores - 1, 8))

\* C29 (amended): the thread count is the detected core count minus 1, capped
\* at 8, on a device that is not mobile and has at least 8 cores and 8 GB;
\* the core count minus 1, capped at 4, on another device that is not mobile
\* and has at least 4 cores and 4 GB; and the core count, capped at 2, on
\* every other device; it is within [1,8] for every detected core count and
\* memory size.
C29_ThreadCountByDeviceClass ==
    \A i \in CountedDetectors :
        LET cores == detectors[i].capabilities.cores
            memory == detectors[i].capabilities.memory
            mobile == detectors[i].platform.mobile
            count == threadCounts[i].count
        IN /\ (~mobile /\ cores >= 8 /\ memory >= 8) => count = Min(cores - 1, 8)
           /\ (~mobile /\ cores >= 4 /\ memory >= 4 /\ ~(cores >= 8 /\ memory >= 8))
                 => count = Min(cores - 1, 4)
           /\ (mobile \/ cores < 4 \/ memory < 4) => count = Min(cores, 2)
           /\ count \in 1..8

\* a phone with at least 8 cores and 8 GB was given 2 threads, and a desktop
\* with more than 9 cores and 8 GB was given 8
C29_Witness ==
    \E i \in CountedDetectors :
        /\ detectors[i].capabilities.memory >= 8
        /\ \/ /\ detectors[i].platform.mobile
              /\ detectors[i].capabilities.cores >= 8
              /\ threadCounts[i].count = 2
           \/ /\ ~detectors[i].platform.mobile
              /\ detectors[i].capabilities.cores > 9
              /\ threadCounts[i].count = 8

(***************************************************************************)
(* Claims about the SystemManager                                          *)
(***************************************************************************)

\* the terminal events a run dispatched
TerminalEvents(r) ==
    { k \in 1..Len(events) :
        /\ events[k].run = r
        /\ events[k].type \in {"system:initialized", "system:error"} }

\* C30: a run of the initialization that has not ended has dispatched no
\* terminal event, and a run that has ended has dispatched exactly one:
\* system:initialized with status 'ready' when it resolved true, and
\* system:error with status 'error' when it resolved false.
C30_OneTerminalEventPerRun ==
    \A r \in 1..Len(runs) :
        /\ runs[r].result = "pending" => TerminalEvents(r) = {}
        /\ runs[r].result # "pending" =>
              /\ Cardinality(TerminalEvents(r)) = 1
              /\ \A k \in TerminalEvents(r) :
                    IF runs[r].result = "true"
                    THEN events[k].type = "system:initialized" /\ events[k].status = "ready"
                    ELSE events[k].type = "system:error" /\ events[k].status = "error"

\* two runs have ended, one resolved true and one resolved false
C30_Witness ==
    \E r, q \in 1..Len(runs) :
        /\ runs[r].result = "true"
        /\ runs[q].result = "false"
        /\ Cardinality(TerminalEvents(r)) = 1
        /\ Cardinality(TerminalEvents(q)) = 1

\* the steps of a run of _performInitialization: phase 1 to phase 2, phase 2
\* to phases 3 and 4, the end of the try block, and the catch from the phases
\* that can throw
PhaseSteps ==
    { <<"device", "cache">>, <<"cache", "threads">>, <<"threads", "validated">>,
      <<"validated", "done">>, <<"cache", "done">>, <<"threads", "done">> }

\* what the initialize() call of the step returned to its caller
Returned == returned'[Len(returned')]

\* C37: a call of initialize() made while the promise of a run is set starts
\* no run and is given the promise of that run, so that every caller of one
\* initialization gets the result of the same run; a call made when the
\* system is initialized is given true and starts no run; a call starts a run
\* only when there is no promise; and every run goes through its phases in
\* order, each at most once.
C37_ConcurrentInitializeRunsOnce ==
    [][/\ SMInitialize =>
            /\ smInitialized => (Returned.value = "true" /\ runs' = runs)
            /\ (~smInitialized /\ initializationPromise # 0) =>
                  /\ runs' = runs
                  /\ Returned.value = "promise"
                  /\ Returned.run = initializationPromise
            /\ (~smInitialized /\ initializationPromise = 0) =>
                  /\ Len(runs') = Len(runs) + 1
                  /\ Returned.value = "promise"
                  /\ Returned.run = Len(runs')
       /\ \A r \in DOMAIN runs :
            /\ runs'[r] # runs[r] => <<runs[r].pc, runs'[r].pc>> \in PhaseSteps
            /\ runs'[r].result = "true" => runs'[r].pc = "done"]_vars

\* three calls of initialize(): the second came while the run of the first
\* was in progress and was given its promise, the run resolved true, and the
\* third call was given true; there is one run
C37_Witness ==
    /\ Len(runs) = 1
    /\ runs[1].result = "true"
    /\ Len(returned) = 3
    /\ returned[1] = [caller |-> "initialize", value |-> "promise", run |-> 1]
    /\ returned[2] = [caller |-> "initialize", value |-> "promise", run |-> 1]
    /\ returned[3] = [caller |-> "initialize", value |-> "true", run |-> 0]

\* the names the three phases enter in this.components
ComponentNames == {"deviceDetector", "cacheManager", "threadManager"}

\* C38 (as claimed): initialized is true only while status is 'ready', and
\* whenever status is 'ready' this.components holds the device detector, the
\* cache manager and the thread manager.
C38_ReadyMeansComplete ==
    /\ smInitialized => status = "ready"
    /\ status = "ready" => ComponentNames \subseteq components

(***************************************************************************)
(* Claims about the ColorParser                                            *)
(***************************************************************************)

\* the calls of parseColor in the log
ParseCalls == { i \in 1..Len(parseLog) : parseLog[i].op = "parseColor" }

\* the positions of the colour table that list the string as a name
ListedAt(color) ==
    { k \in 1..Len(ColorTable) : color.kind = "name" /\ ColorTable[k].name = color.form }

\* C27 (as claimed): parseColor fails only when its input is neither a 3- or
\* 6-digit hex string nor a name of the colour table; every name the table
\* lists, a name that shares its hex value with another name included,
\* parses to the hex value listed for it; and getAllHexValues holds no value
\* twice.
C27_EveryListedNameParses ==
    /\ \A i \in ParseCalls :
          /\ parseLog[i].threw
                => (parseLog[i].input.kind # "hex" /\ ListedAt(parseLog[i].input) = {})
          /\ \A k \in ListedAt(parseLog[i].input) :
                ~parseLog[i].threw /\ parseLog[i].hex = <<ColorTable[k].hex>>
    /\ \A i \in 1..Len(parseLog) :
          parseLog[i].op = "getAllHexValues"
            => \A a, b \in 1..Len(parseLog[i].hex) :
                  a < b => parseLog[i].hex[a] # parseLog[i].hex[b]

\* a step of addCustomRule: the registry changed and lost no id
AddsRule ==
    /\ validationRules' # validationRules
    /\ DOMAIN validationRules \subseteq DOMAIN validationRules'

\* C21: addCustomRule, under any rule id, leaves every built-in rule that was
\* registered in the registry, with the same result on the swatch and the
\* options under test.
C21_CustomRuleLeavesBuiltIns ==
    [][AddsRule =>
         \A id \in BuiltInRules \cap DOMAIN validationRules :
             Validate(validationRules'[id], veCall.swatch, veCall.options)
                 = Validate(validationRules[id], veCall.swatch, veCall.options)]_vars

\* the errors of the report that tell of a rule that threw
FailedRules == { e \in 1..Len(veReport.errors) : veReport.errors[e] = "Rule failed" }

C39_WorkerAgreesWithMainThread ==
    wcagCall.op = "workerValidateSwatch" =>
        /\ ~wcagCall.threw
        /\ ~ValidateSwatchOf(wcagCall.colors, wcagCall.level).threw
        /\ wcagCall.valid = ValidateSwatchOf(wcagCall.colors, wcagCall.level).compliant

\* the results getHighestLevel documents, weakest first
DocumentedLevels == <<"None", "AA-Large", "AA", "AAA-Large", "AAA">>

\* whether a contrast ratio (times 100) satisfies a documented result
Satisfies(contrastRatio, result) ==
    CASE result = "None"      -> TRUE
      [] result = "AA-Large"  -> contrastRatio >= Thresholds.AA.large
      [] result = "AA"        -> contrastRatio >= Thresholds.AA.normal
      [] result = "AAA-Large" -> contrastRatio >= Thresholds.AAA.large
      [] result = "AAA"       -> contrastRatio >= Thresholds.AAA.normal

\* the contrast ratios calculateContrast can return, times 100: it rounds to
\* two decimals, and a ratio lies in [1, 21]
ContrastRatios == 100..2100

\* C40: under the default thresholds getAllCompliance returns, through
\* getHighestLevel, the strongest level the contrast ratio satisfies, and each
\* of 'None', 'AA-Large', 'AA', 'AAA-Large' and 'AAA' is returned for some
\* contrast ratio in [1, 21].
C40_HighestLevelAndEveryResult ==
    /\ (wcagCall.op = "getAllCompliance" /\ ~wcagCall.threw) =>
          \E k \in 1..Len(DocumentedLevels) :
              /\ wcagCall.highestLevel = DocumentedLevels[k]
              /\ Satisfies(wcagCall.contrastRatio, DocumentedLevels[k])
              /\ \A j \in (k + 1)..Len(DocumentedLevels) :
                    ~Satisfies(wcagCall.contrastRatio, DocumentedLevels[j])
    /\ wcagCall.op = "getAllCompliance" =>
          \A k \in 1..Len(DocumentedLevels) :
              \E contrastRatio \in ContrastRatios :
                  GetHighestLevel(ComplianceAt(contrastRatio)) = DocumentedLevels[k]

=============================================================================
